---- MODULE Spec2Model ----
(***************************************************************************)
(* Model of the Breathe Audio serial engine (src/serial_manager.py):       *)
(* SerialMessageParser (frame buffer + parse_state) and                    *)
(* SerialConnectionManager (connection loop, start/stop, send_command,     *)
(* data and disconnect callbacks).                                         *)
(*                                                                         *)
(* Text is a sequence of one-character strings; times are milliseconds.    *)
(* Each action is one run of a coroutine between two suspension points of  *)
(* the asyncio event loop, or one callback of the serial transport.        *)
(***************************************************************************)
EXTENDS Integers, Sequences, FiniteSets, TLC

\* ------------------------------------------------------------------------
\* Characters and strings
\* ------------------------------------------------------------------------

CR == "\r"
COMMAND_TERMINATOR == CR
RESPONSE_PREFIX == "#"

\* a received byte >= 0x80, dropped by decode("ascii", errors="ignore")
NonAsciiByte == "x80"

DigitSeq == <<"0", "1", "2", "3", "4", "5", "6", "7", "8", "9">>
Digits == {DigitSeq[i] : i \in 1..10}
DigitVal(c) == (CHOOSE i \in 1..10 : DigitSeq[i] = c) - 1

LowerSeq == <<"a", "b", "c", "d", "e", "f", "g", "h", "i", "j", "k", "l", "m",
              "n", "o", "p", "q", "r", "s", "t", "u", "v", "w", "x", "y", "z">>
UpperSeq == <<"A", "B", "C", "D", "E", "F", "G", "H", "I", "J", "K", "L", "M",
              "N", "O", "P", "Q", "R", "S", "T", "U", "V", "W", "X", "Y", "Z">>

\* str.upper() on one character
UpperChar(c) ==
    IF \E i \in 1..26 : LowerSeq[i] = c
    THEN UpperSeq[CHOOSE i \in 1..26 : LowerSeq[i] = c]
    ELSE c

Upper(s) == [i \in 1..Len(s) |-> UpperChar(s[i])]

Whitespace == {" ", "\t", "\n", "\r", "\f"}

RECURSIVE LStrip(_)
LStrip(s) ==
    IF s # <<>> /\ Head(s) \in Whitespace THEN LStrip(Tail(s)) ELSE s

RECURSIVE RStrip(_)
RStrip(s) ==
    IF s # <<>> /\ s[Len(s)] \in Whitespace
    THEN RStrip(SubSeq(s, 1, Len(s) - 1))
    ELSE s

\* str.strip()
Strip(s) == RStrip(LStrip(s))

\* s[n:] with n >= 0
Drop(s, n) == SubSeq(s, n + 1, Len(s))

\* s.startswith(p)
StartsWith(s, p) == Len(s) >= Len(p) /\ SubSeq(s, 1, Len(p)) = p

\* p in s
Contains(s, p) ==
    \E i \in 1..(Len(s) - Len(p) + 1) : SubSeq(s, i, i + Len(p) - 1) = p

\* s.find(c) as a 1-based index, 0 when c does not occur
Find(s, c) ==
    IF \E i \in 1..Len(s) : s[i] = c
    THEN CHOOSE i \in 1..Len(s) : s[i] = c /\ \A j \in 1..(i - 1) : s[j] # c
    ELSE 0

\* s.replace("##", "#"): non-overlapping occurrences, left to right
RECURSIVE ReplaceDoubleHash(_)
ReplaceDoubleHash(s) ==
    IF Len(s) < 2 THEN s
    ELSE IF s[1] = "#" /\ s[2] = "#"
         THEN <<"#">> \o ReplaceDoubleHash(Drop(s, 2))
         ELSE <<s[1]>> \o ReplaceDoubleHash(Tail(s))

\* s.split(",")
RECURSIVE Split(_)
Split(s) ==
    LET idx == Find(s, ",")
    IN  IF idx = 0 THEN <<s>>
        ELSE <<SubSeq(s, 1, idx - 1)>> \o Split(Drop(s, idx))

\* s.replace("+", "")
RECURSIVE RemovePlus(_)
RemovePlus(s) ==
    IF s = <<>> THEN s
    ELSE IF Head(s) = "+" THEN RemovePlus(Tail(s))
         ELSE <<Head(s)>> \o RemovePlus(Tail(s))

\* raw.decode("ascii", errors="ignore")
RECURSIVE DecodeAscii(_)
DecodeAscii(raw) ==
    IF raw = <<>> THEN raw
    ELSE IF Head(raw) = NonAsciiByte THEN DecodeAscii(Tail(raw))
         ELSE <<Head(raw)>> \o DecodeAscii(Tail(raw))

\* the digit groups int() accepts: digits, single underscores between them
IsDigitGroup(s) ==
    /\ s # <<>>
    /\ \A i \in 1..Len(s) : s[i] \in Digits \cup {"_"}
    /\ s[1] \in Digits
    /\ s[Len(s)] \in Digits
    /\ \A i \in 1..(Len(s) - 1) : ~(s[i] = "_" /\ s[i + 1] = "_")

RECURSIVE DigitsValue(_, _)
DigitsValue(s, acc) ==
    IF s = <<>> THEN acc
    ELSE IF Head(s) = "_" THEN DigitsValue(Tail(s), acc)
         ELSE DigitsValue(Tail(s), 10 * acc + DigitVal(Head(s)))

\* int(s): surrounding whitespace, one optional sign, a digit group;
\* ok = FALSE stands for ValueError
ParseInt(s) ==
    LET t == Strip(s)
        signed == t # <<>> /\ t[1] \in {"+", "-"}
        body == IF signed THEN Tail(t) ELSE t
    IN  IF IsDigitGroup(body)
        THEN [ok |-> TRUE,
              val |-> IF signed /\ t[1] = "-"
                      THEN 0 - DigitsValue(body, 0)
                      ELSE DigitsValue(body, 0)]
        ELSE [ok |-> FALSE, val |-> 0]

\* ------------------------------------------------------------------------
\* SerialMessageParser
\* ------------------------------------------------------------------------

\* A state dictionary: keys is the set of keys present; a field whose key
\* is absent holds its default.  The empty dictionary stands for None
\* ("return state or None").
StateKeys == {"zone", "power", "volume", "mute", "source", "bass", "treble", "balance"}

EmptyState ==
    [keys |-> {}, zone |-> 0, power |-> FALSE, volume |-> 0, mute |-> FALSE,
     source |-> 0, bass |-> 0, treble |-> 0, balance |-> 0]

NoState == EmptyState

SetZone(st, v)    == [st EXCEPT !.keys = @ \cup {"zone"}, !.zone = v]
SetPower(st, v)   == [st EXCEPT !.keys = @ \cup {"power"}, !.power = v]
SetVolume(st, v)  == [st EXCEPT !.keys = @ \cup {"volume"}, !.volume = v]
SetMute(st, v)    == [st EXCEPT !.keys = @ \cup {"mute"}, !.mute = v]
SetSource(st, v)  == [st EXCEPT !.keys = @ \cup {"source"}, !.source = v]
SetBass(st, v)    == [st EXCEPT !.keys = @ \cup {"bass"}, !.bass = v]
SetTreble(st, v)  == [st EXCEPT !.keys = @ \cup {"treble"}, !.treble = v]
SetBalance(st, v) == [st EXCEPT !.keys = @ \cup {"balance"}, !.balance = v]

\* an "if" in place of the "while": at most one frame is cut per call
ExtractFramesOnce(buf, frames) ==
    LET idx == Find(buf, COMMAND_TERMINATOR)
    IN  IF idx = 0 THEN [frames |-> frames, buffer |-> buf]
        ELSE LET text == Strip(DecodeAscii(SubSeq(buf, 1, idx - 1)))
             IN  [frames |-> IF text # <<>> THEN Append(frames, text) ELSE frames,
                  buffer |-> Drop(buf, idx)]

\* feed_data: the loop that cuts the buffer at each terminator
RECURSIVE ExtractFrames(_, _)
ExtractFrames(buf, frames) ==
    LET idx == Find(buf, COMMAND_TERMINATOR)
    IN  IF idx = 0 THEN [frames |-> frames, buffer |-> buf]
        ELSE LET raw == SubSeq(buf, 1, idx - 1)
                 text == Strip(DecodeAscii(raw))
             IN  ExtractFrames(Drop(buf, idx),
                               IF text # <<>> THEN Append(frames, text) ELSE frames)

\* a feed_data that cuts the new bytes only and forgets the bytes it held
FeedDataNoCarry(buf, data) == ExtractFrames(data, <<>>)

\* feed_data(data) on a parser whose buffer is buf
FeedData(buf, data) == ExtractFrames(buf \o data, <<>>)

\* the body of the "for token in tokens" loop of parse_state
DecodeToken(st, token) ==
    LET part == Upper(Strip(token))
        pay == Drop(part, 3)
    IN  IF part = <<>> THEN st
        ELSE IF StartsWith(part, <<"P", "W", "R">>)
             THEN SetPower(st, pay = <<"O", "N">>)
        ELSE IF StartsWith(part, <<"V", "O", "L">>)
             THEN LET vol_str == IF pay # <<>> /\ pay[1] \in {"+", "-"}
                                 THEN Tail(pay) ELSE pay
                      n == ParseInt(vol_str)
                  IN  IF n.ok THEN SetVolume(st, n.val) ELSE st
        ELSE IF StartsWith(part, <<"M", "U", "T">>)
             THEN SetMute(st, pay = <<"O", "N">>)
        ELSE IF StartsWith(part, <<"S", "R", "C">>)
             THEN LET n == ParseInt(pay)
                  IN  IF n.ok THEN SetSource(st, n.val) ELSE st
        ELSE IF StartsWith(part, <<"B", "A", "S">>)
             THEN LET n == ParseInt(RemovePlus(pay))
                  IN  IF n.ok THEN SetBass(st, n.val) ELSE st
        ELSE IF StartsWith(part, <<"T", "R", "E">>)
             THEN LET n == ParseInt(RemovePlus(pay))
                  IN  IF n.ok THEN SetTreble(st, n.val) ELSE st
        ELSE IF StartsWith(part, <<"B", "A", "L">>)
             THEN LET n == ParseInt(RemovePlus(pay))
                  IN  IF n.ok THEN SetBalance(st, n.val) ELSE st
        ELSE st

\* a token loop that ends at the first token that sets no field
RECURSIVE DecodeTokensUntilBad(_, _)
DecodeTokensUntilBad(st, tokens) ==
    IF tokens = <<>> THEN st
    ELSE IF DecodeToken(st, Head(tokens)) = st THEN st
         ELSE DecodeTokensUntilBad(DecodeToken(st, Head(tokens)), Tail(tokens))

\* parse_state: the "for token in tokens" loop
RECURSIVE DecodeTokens(_, _)
DecodeTokens(st, tokens) ==
    IF tokens = <<>> THEN st
    ELSE DecodeTokens(DecodeToken(st, Head(tokens)), Tail(tokens))

\* the zone a frame body starts with: [zone, rest]; zone 0 - 1 stands for None
NoZone == 0 - 1

\* a zone pattern that reads one digit only
ExtractZoneOneDigit(text) ==
    IF StartsWith(text, <<"Z">>) /\ Len(text) >= 2 /\ text[2] \in Digits
    THEN [zone |-> DigitVal(text[2]), rest |-> Drop(text, 2)]
    ELSE [zone |-> NoZone, rest |-> text]

ExtractZone(text) ==
    IF StartsWith(text, <<"Z">>)
    THEN IF Len(text) >= 3 /\ text[2] \in Digits /\ text[3] \in Digits
         THEN [zone |-> 10 * DigitVal(text[2]) + DigitVal(text[3]), rest |-> Drop(text, 3)]
         ELSE IF Len(text) >= 2 /\ text[2] \in Digits
              THEN [zone |-> DigitVal(text[2]), rest |-> Drop(text, 2)]
              ELSE [zone |-> NoZone, rest |-> text]
    ELSE IF Len(text) >= 2 /\ text[1] \in Digits /\ text[2] \in Digits
         THEN [zone |-> 10 * DigitVal(text[1]) + DigitVal(text[2]), rest |-> Drop(text, 2)]
         ELSE [zone |-> NoZone, rest |-> text]

\* a fallback that ignores the zone the frame carries
FallbackZoneAlways(zone, rest, last_zone) ==
    IF last_zone # NoZone /\ Contains(Upper(rest), <<"P", "W", "R">>)
    THEN last_zone ELSE zone

\* parse_state: a frame without a zone but with "PWR" in it is attributed
\* to last_zone
FallbackZone(zone, rest, last_zone) ==
    IF /\ zone = NoZone
       /\ last_zone # NoZone
       /\ Contains(Upper(rest), <<"P", "W", "R">>)
    THEN last_zone ELSE zone

\* parse_state(message, last_zone); last_zone = NoZone stands for None
ParseState(message, last_zone) ==
    IF message = <<>> THEN NoState
    ELSE LET stripped == Strip(message)
             collapsed == ReplaceDoubleHash(stripped)
             text == IF StartsWith(collapsed, <<RESPONSE_PREFIX>>)
                     THEN Drop(collapsed, 1) ELSE collapsed
             zr == ExtractZone(text)
             rest == zr.rest
             zone == FallbackZone(zr.zone, rest, last_zone)
             tokens == Split(rest)
             st0 == IF zone # NoZone THEN SetZone(EmptyState, zone) ELSE EmptyState
         IN  DecodeTokens(st0, tokens)

\* ------------------------------------------------------------------------
\* BreatheAudioAPI: command texts and response parser
\* ------------------------------------------------------------------------

COMMAND_PREFIX == "*"
MIN_ZONE == 1
MAX_ZONE == 12

\* str(n) for n >= 0
RECURSIVE Decimal(_)
Decimal(n) ==
    IF n < 10 THEN <<DigitSeq[n + 1]>>
    ELSE Decimal(n \div 10) \o <<DigitSeq[(n % 10) + 1]>>

\* f"{n:02d}": zero-padded to a width of two, the sign counted in the width
Format02d(n) ==
    IF n < 0 THEN <<"-">> \o Decimal(0 - n)
    ELSE IF n < 10 THEN <<"0">> \o Decimal(n)
    ELSE Decimal(n)

\* set_bass / set_treble / set_balance: f"{sign}{level:02d}"
SignedLevel(level) ==
    (IF level >= 0 THEN <<"+">> ELSE <<>>) \o Format02d(level)

ZoneMethods ==
    {"zone_power_on", "zone_power_off", "volume_up", "volume_down",
     "mute_on", "mute_off", "query_zone_status"}
LevelMethods == {"set_bass", "set_treble", "set_balance"}
Methods == ZoneMethods \cup LevelMethods \cup {"set_volume", "set_source"}

\* a zone check that lets the zone after the last one through
ZoneInRangeOffByOne(zone) == MIN_ZONE <= zone /\ zone <= MAX_ZONE + 1

\* MIN_ZONE <= zone <= MAX_ZONE
ZoneInRange(zone) == MIN_ZONE <= zone /\ zone <= MAX_ZONE

\* the range check of the parameter of each typed command
ParamInRange(method, p) ==
    IF method = "set_volume" THEN 0 <= p /\ p <= 100
    ELSE IF method = "set_source" THEN 1 <= p /\ p <= 6
    ELSE IF method \in LevelMethods THEN 0 - 10 <= p /\ p <= 10
    ELSE TRUE

\* the guard at the top of each typed command
InRange(method, zone, p) == ZoneInRange(zone) /\ ParamInRange(method, p)

\* the text each typed command passes to _send_command
CommandText(method, zone, p) ==
    LET z == <<"Z">> \o Format02d(zone)
    IN  IF method = "zone_power_on" THEN z \o <<"o", "n">>
        ELSE IF method = "zone_power_off" THEN z \o <<"o", "f", "f">>
        ELSE IF method = "set_volume" THEN z \o <<"v", "o", "l">> \o Format02d(p)
        ELSE IF method = "volume_up" THEN z \o <<"v", "o", "l", "+">>
        ELSE IF method = "volume_down" THEN z \o <<"v", "o", "l", "-">>
        ELSE IF method = "mute_on" THEN z \o <<"m", "t", "o", "n">>
        ELSE IF method = "mute_off" THEN z \o <<"m", "t", "o", "f", "f">>
        ELSE IF method = "set_source" THEN z \o <<"s", "r", "c">> \o Decimal(p)
        ELSE IF method = "set_bass" THEN z \o <<"b", "a", "s">> \o SignedLevel(p)
        ELSE IF method = "set_treble" THEN z \o <<"t", "r", "e">> \o SignedLevel(p)
        ELSE IF method = "set_balance" THEN z \o <<"b", "a", "l">> \o SignedLevel(p)
        ELSE z \o <<"C", "O", "N", "S", "R">>

\* _send_command: full_command
FullCommand(command) == <<COMMAND_PREFIX>> \o command \o <<COMMAND_TERMINATOR>>

\* the value a typed command returns when its guard fails
RejectedValue(method) ==
    IF method = "query_zone_status" THEN "None" ELSE "False"

\* re.search(r'Z(\d+)', message): start of the first "Z" followed by a
\* digit and the end of the digits after it; start 0 when there is none
ZoneMatch(message) ==
    LET starts == {i \in 1..(Len(message) - 1) :
                     message[i] = "Z" /\ message[i + 1] \in Digits}
    IN  IF starts = {} THEN [start |-> 0, end |-> 0]
        ELSE LET s == CHOOSE i \in starts : \A j \in starts : i <= j
                 e == CHOOSE k \in (s + 1)..Len(message) :
                        /\ \A j \in (s + 1)..k : message[j] \in Digits
                        /\ (k = Len(message) \/ message[k + 1] \notin Digits)
             IN  [start |-> s, end |-> e]

\* vol_str with its leading "-" stripped
StripMinus(s) == IF s # <<>> /\ s[1] = "-" THEN Tail(s) ELSE s

\* _parse_response: one part of a composite status string
ParsePart(st, part) ==
    LET pay == Drop(part, 3)
    IN  IF StartsWith(part, <<"P", "W", "R">>)
        THEN SetPower(st, pay = <<"O", "N">>)
        ELSE IF StartsWith(part, <<"V", "O", "L">>)
             THEN LET n == ParseInt(StripMinus(pay))
                  IN  IF n.ok THEN SetVolume(st, n.val) ELSE st
        ELSE IF StartsWith(part, <<"M", "U", "T">>)
             THEN SetMute(st, pay = <<"O", "N">>)
        ELSE IF StartsWith(part, <<"S", "R", "C">>)
             THEN LET n == ParseInt(pay)
                  IN  IF n.ok THEN SetSource(st, n.val) ELSE st
        ELSE st

RECURSIVE ParseParts(_, _)
ParseParts(st, parts) ==
    IF parts = <<>> THEN st
    ELSE ParseParts(ParsePart(st, Head(parts)), Tail(parts))

\* _parse_response: a single command response
ParseSingle(st, cmd) ==
    LET pay == Drop(cmd, 3)
        n == ParseInt(pay)
    IN  IF \/ StartsWith(cmd, <<"P", "W", "R">>)
           \/ StartsWith(cmd, <<"V", "O", "L">>)
           \/ StartsWith(cmd, <<"M", "U", "T">>)
           \/ StartsWith(cmd, <<"S", "R", "C">>)
        THEN ParsePart(st, cmd)
        ELSE IF StartsWith(cmd, <<"B", "A", "S">>)
             THEN IF n.ok THEN SetBass(st, n.val) ELSE st
        ELSE IF StartsWith(cmd, <<"T", "R", "E">>)
             THEN IF n.ok THEN SetTreble(st, n.val) ELSE st
        ELSE IF StartsWith(cmd, <<"B", "A", "L">>)
             THEN IF n.ok THEN SetBalance(st, n.val) ELSE st
        ELSE st

\* BreatheAudioAPI._parse_response(message); NoState stands for None
ParseResponse(message) ==
    LET m == ZoneMatch(message)
    IN  IF m.start = 0 THEN NoState
        ELSE LET zone == DigitsValue(SubSeq(message, m.start + 1, m.end), 0)
                 cmd == Upper(Drop(message, m.end))
                 st0 == SetZone(EmptyState, zone)
             IN  IF Find(cmd, ",") # 0
                 THEN ParseParts(st0, Split(cmd))
                 ELSE ParseSingle(st0, cmd)

\* ------------------------------------------------------------------------
\* BreatheAudioData: the stored zone states
\* ------------------------------------------------------------------------

\* async_refresh_zone: _zone_data[zone] = state
Replaced(old, state) == state

\* _zone_data[zone].update(state): the keys of state are overwritten, the
\* other keys keep their values
Updated(old, state) ==
    [keys |-> old.keys \cup state.keys,
     zone |-> IF "zone" \in state.keys THEN state.zone ELSE old.zone,
     power |-> IF "power" \in state.keys THEN state.power ELSE old.power,
     volume |-> IF "volume" \in state.keys THEN state.volume ELSE old.volume,
     mute |-> IF "mute" \in state.keys THEN state.mute ELSE old.mute,
     source |-> IF "source" \in state.keys THEN state.source ELSE old.source,
     bass |-> IF "bass" \in state.keys THEN state.bass ELSE old.bass,
     treble |-> IF "treble" \in state.keys THEN state.treble ELSE old.treble,
     balance |-> IF "balance" \in state.keys THEN state.balance ELSE old.balance]

\* ------------------------------------------------------------------------
\* SerialConnectionManager: state
\* ------------------------------------------------------------------------

Min(a, b) == IF a < b THEN a ELSE b

\* the tasks that call send_command concurrently
Callers == {"c1", "c2"}
NoCaller == "nobody"

\* text of the commands and frames used by the callers and by the device
Z01CONSR == <<"*", "Z", "0", "1", "C", "O", "N", "S", "R">>
Z02on    == <<"*", "Z", "0", "2", "o", "n">>

\* the arguments of a send_command call (the timeout is the firing of the
\* timeout actions)
CallArgs ==
    { [command |-> Z01CONSR, zone |-> 1, wait |-> TRUE],
      [command |-> Z02on, zone |-> 2, wait |-> FALSE] }

FrameZ01On  == <<"#", "Z", "0", "1", "P", "W", "R", "O", "N", "\r">>
FrameZ02Off == <<"#", "Z", "0", "2", "P", "W", "R", "O", "F", "F", "\r">>
FrameError  == <<"#", "?", "\r">>

\* the chunks data_received delivers
Chunks == { FrameZ01On, FrameError, FrameZ02Off \o FrameZ01On }

\* _connection_loop: backoff floor, backoff cap, cap of the sleep, jitter bound
BackoffFloor == 500
BackoffCap == 30000
SleepCap == 30000
JitterBound == 250
\* values random.uniform(0.0, 0.25) is drawn from
JitterValues == {0, JitterBound - 1}

NoWaiter == [st |-> "none", result |-> NoState]
PendingWaiter == [st |-> "pending", result |-> NoState]

NoResult == [kind |-> "running", state |-> NoState]

\* ------------------------------------------------------------------------
\* SerialMessageParser used on its own: the inputs it is given
\* ------------------------------------------------------------------------

\* all sequences over S of length at most n
SeqsUpTo(S, n) == UNION {[1..k -> S] : k \in 0..n}

\* the bytes of the streams fed to feed_data: a letter, the terminator, a
\* blank and a byte decode() drops
FeedAlphabet == {"A", CR, " ", NonAsciiByte}
MaxInputLen == 4

\* the byte streams: every short one, and two whole frames
FeedInputs == SeqsUpTo(FeedAlphabet, MaxInputLen) \cup {FrameZ01On \o FrameZ02Off}

\* no stream, nothing fed
NoFeed ==
    [input |-> <<>>, fed |-> 0, calls |-> 0, lastLen |-> 0, frames |-> <<>>,
     last |-> <<>>, segments |-> <<>>, kept |-> <<>>]

\* the tokens of a frame body: the text on the wire, and what the token
\* stands for in the device protocol (key, number, code)
TokPwrOn      == [text |-> <<"P", "W", "R", "O", "N">>, key |-> "power", num |-> 1, code |-> ""]
TokPwrOff     == [text |-> <<"P", "W", "R", "O", "F", "F">>, key |-> "power", num |-> 0, code |-> ""]
TokVol10      == [text |-> <<"V", "O", "L", "1", "0">>, key |-> "volume", num |-> 10, code |-> ""]
TokVolMinus45 == [text |-> <<"V", "O", "L", "-", "4", "5">>, key |-> "volume", num |-> 45, code |-> ""]
TokMutOn      == [text |-> <<"M", "U", "T", "O", "N">>, key |-> "mute", num |-> 1, code |-> ""]
TokSrc3       == [text |-> <<"S", "R", "C", "3">>, key |-> "source", num |-> 3, code |-> ""]
TokGrp0       == [text |-> <<"G", "R", "P", "0">>, key |-> "group", num |-> 0, code |-> ""]
TokPMst       == [text |-> <<"P", "M", "S", "T">>, key |-> "party_mode", num |-> 0, code |-> "MST"]
TokPOff       == [text |-> <<"P", "O", "F", "F">>, key |-> "party_mode", num |-> 0, code |-> "OFF"]
TokPSlv       == [text |-> <<"P", "S", "L", "V">>, key |-> "party_mode", num |-> 0, code |-> "SLV"]
TokVolMt      == [text |-> <<"V", "O", "L", "M", "T">>, key |-> "volmt", num |-> 0, code |-> "MT"]
TokVolXm      == [text |-> <<"V", "O", "L", "X", "M">>, key |-> "volxm", num |-> 0, code |-> "XM"]
TokAllOff     == [text |-> <<"A", "L", "L", "O", "F", "F">>, key |-> "broadcast", num |-> 0, code |-> "alloff"]
TokExtMOn     == [text |-> <<"E", "X", "T", "M", "O", "N">>, key |-> "broadcast", num |-> 0, code |-> "extmon"]
TokExtMOff    == [text |-> <<"E", "X", "T", "M", "O", "F", "F">>, key |-> "broadcast", num |-> 0, code |-> "extmoff"]
TokError      == [text |-> <<"?">>, key |-> "other", num |-> 0, code |-> ""]

Tokens ==
    {TokPwrOn, TokPwrOff, TokVol10, TokVolMinus45, TokMutOn, TokSrc3, TokGrp0,
     TokPMst, TokPOff, TokPSlv, TokVolMt, TokVolXm, TokAllOff, TokExtMOn,
     TokExtMOff, TokError}
MaxTokens == 2

\* the zone a frame starts with: its text and its number
ZoneAbsent == [text |-> <<>>, num |-> NoZone, form |-> "none"]
ZoneZ03    == [text |-> <<"Z", "0", "3">>, num |-> 3, form |-> "Z"]
ZoneZ01    == [text |-> <<"Z", "0", "1">>, num |-> 1, form |-> "Z"]
ZoneZ1     == [text |-> <<"Z", "1">>, num |-> 1, form |-> "Z"]
ZoneZ12    == [text |-> <<"Z", "1", "2">>, num |-> 12, form |-> "Z"]
Zone07     == [text |-> <<"0", "7">>, num |-> 7, form |-> "digits"]

ZoneOptions == {ZoneAbsent, ZoneZ03, ZoneZ1, ZoneZ12, Zone07}
Prefixes == {<<>>, <<RESPONSE_PREFIX>>, <<RESPONSE_PREFIX, RESPONSE_PREFIX>>}
LastZones == {NoZone, 5}

\* the frames of the parser tests
FrameZone3 ==
    [prefix |-> <<RESPONSE_PREFIX>>, zone |-> ZoneZ03,
     tokens |-> <<TokPwrOn, TokVol10, TokMutOn>>]
FrameComposite ==
    [prefix |-> <<RESPONSE_PREFIX>>, zone |-> ZoneZ01,
     tokens |-> <<TokPwrOn, TokSrc3, TokGrp0, TokVolMinus45, TokPMst>>]

\* the frames given to parse_state
Frames ==
    {[prefix |-> p, zone |-> z, tokens |-> t] :
        p \in Prefixes, z \in ZoneOptions, t \in SeqsUpTo(Tokens, MaxTokens)}
    \cup {FrameZone3, FrameComposite}

\* ",".join(texts of the tokens)
RECURSIVE JoinTokens(_)
JoinTokens(tokens) ==
    IF tokens = <<>> THEN <<>>
    ELSE IF Len(tokens) = 1 THEN tokens[1].text
         ELSE tokens[1].text \o <<",">> \o JoinTokens(Tail(tokens))

\* the message text of a frame
Render(frame) == frame.prefix \o frame.zone.text \o JoinTokens(frame.tokens)

\* no parse_state call
NoParse ==
    [frame |-> [prefix |-> <<>>, zone |-> ZoneAbsent, tokens |-> <<>>],
     last_zone |-> NoZone, done |-> FALSE, state |-> NoState]

\* tokens with a field name and a payload that is no number, and tokens the
\* parser does not know
TokVolXx == [text |-> <<"V", "O", "L", "X", "X">>, key |-> "volume", num |-> 0, code |-> "bad"]
TokSrcX  == [text |-> <<"S", "R", "C", "X">>, key |-> "source", num |-> 0, code |-> "bad"]
TokBasLo == [text |-> <<"B", "A", "S", "L", "O">>, key |-> "bass", num |-> 0, code |-> "bad"]
TokTreHi == [text |-> <<"T", "R", "E", "H", "I">>, key |-> "treble", num |-> 0, code |-> "bad"]
TokBalL  == [text |-> <<"B", "A", "L", "L">>, key |-> "balance", num |-> 0, code |-> "bad"]
TokGrpA  == [text |-> <<"G", "R", "P", "A">>, key |-> "group", num |-> 0, code |-> "bad"]
BadTokens == {TokVolXx, TokSrcX, TokBasLo, TokTreHi, TokBalL, TokGrpA, TokAllOff, TokError}

\* tokens the parser decodes
TokBasMinus4 == [text |-> <<"B", "A", "S", "-", "4">>, key |-> "bass", num |-> 0 - 4, code |-> ""]
TokTrePlus2  == [text |-> <<"T", "R", "E", "+", "2">>, key |-> "treble", num |-> 2, code |-> ""]
GoodTokens == {TokPwrOn, TokVol10, TokMutOn, TokSrc3, TokBasMinus4, TokTrePlus2}

\* frames of one to three tokens, at least one of them bad
BadFrames ==
    {[prefix |-> <<RESPONSE_PREFIX>>, zone |-> z, tokens |-> t] :
        z \in {ZoneAbsent, ZoneZ03},
        t \in {u \in SeqsUpTo(GoodTokens \cup BadTokens, 3) :
                 \E i \in 1..Len(u) : u[i] \in BadTokens}}

\* the zones the facade is configured with: range(1, self.zones + 1)
ConfiguredZones == 1..2

\* the zones in the order _handle_connection_update walks them
RECURSIVE ZonesFrom(_)
ZonesFrom(z) ==
    IF z \in ConfiguredZones THEN <<z>> \o ZonesFrom(z + 1) ELSE <<>>

\* the observers the host registers, each for one zone
Registrations == { [zone |-> 1, who |-> "o1"], [zone |-> 2, who |-> "o2"] }

\* the jobs hass.add_job holds are kept to this number
MaxJobs == 2

\* the arguments the typed commands are called with: a zone at and around
\* the last zone and below the first, a parameter at and around the ends of
\* its range
EdgeArgs(lo, hi) ==
    { [zone |-> 12, p |-> lo], [zone |-> 12, p |-> hi],
      [zone |-> 12, p |-> lo - 1], [zone |-> 12, p |-> hi + 1],
      [zone |-> 0, p |-> lo], [zone |-> 13, p |-> hi] }
ArgInputs(method) ==
    IF method = "set_volume" THEN EdgeArgs(0, 100)
    ELSE IF method = "set_source" THEN EdgeArgs(1, 6)
    ELSE IF method \in LevelMethods THEN EdgeArgs(0 - 10, 10)
    ELSE {[zone |-> z, p |-> 0] : z \in {0, 12, 13}}

\* the messages the protocol hands to _handle_message
MsgZ01Status == <<"#", "Z", "0", "1", "P", "W", "R", "O", "N", ",",
                  "V", "O", "L", "-", "6", "2">>
MsgZ01MutOn == <<"#", "Z", "0", "1", "M", "U", "T", "O", "N">>
MsgZ02Vol == <<"#", "Z", "0", "2", "V", "O", "L", "1", "0">>
MsgNoPrefix == <<"X", "P", "W", "R", "O", "N">>
Messages == {MsgZ01Status, MsgZ01MutOn, MsgZ02Vol, MsgNoPrefix}

NoResponse == <<>>
NoCall == [cmd |-> <<>>, kind |-> "none", method |-> "none", zone |-> 0, param |-> 0]
NoAttempt == [method |-> "none", zone |-> 0, param |-> 0, ret |-> "none"]

\* BreatheAudioAPI.__init__
NewApi ==
    [connected |-> FALSE, protocol |-> FALSE, responseEvent |-> FALSE,
     lastResponse |-> NoResponse, callbacks |-> {}, pc |-> "idle",
     call |-> NoCall, written |-> <<>>, attempt |-> NoAttempt]

\* BreatheAudioData.__init__ on an API that is not connected
NewData ==
    [zoneData |-> [z \in ConfiguredZones |-> EmptyState],
     listeners |-> [z \in ConfiguredZones |-> <<>>],
     available |-> FALSE, subscribed |-> FALSE, jobs |-> <<>>,
     fired |-> [zone |-> 0, who |-> <<>>]]


\* the byte streams a device sends: an error marker, noise and status frames
FrameNoise == <<"x", "y", "\r">>
PipeInputs == { FrameError \o FrameZ01On \o FrameZ02Off,
                FrameZ02Off \o FrameZ01On,
                FrameNoise \o FrameZ01On }
NoPipe == [input |-> <<>>, fed |-> 0, events |-> <<>>, observed |-> <<>>]

\* the chunks in which two responses reach BreatheAudioProtocol
WireChunks == << <<"#", "Z", "0", "1", "M", "U">>,
                 <<"T", "O", "N", "\r", "#", "Z", "0", "2">>,
                 <<"V", "O", "L", "1", "0", "\r">> >>

\* BreatheAudioAPI.__init__ with the commands and the transport around it:
\* transport is "none" while _transport and _protocol are None, leaked is
\* set once an open transport was replaced without being closed
NewWire ==
    [connected |-> FALSE, transport |-> "none", lostPending |-> FALSE,
     leaked |-> FALSE, buffer |-> <<>>, responseEvent |-> FALSE,
     lastResponse |-> NoResponse, owner |-> NoCaller, queue |-> <<>>,
     pc |-> [c \in Callers |-> "idle"], fed |-> 0, delivered |-> <<>>]

VARIABLES
    buffer,              \* _parser._buffer
    protocol,            \* _protocol (and _transport) is not None
    transportOpen,       \* the serial transport behind _protocol is open
    lostPending,         \* the transport has scheduled connection_lost
    stopEvent,           \* _stop_event
    disconnectEvent,     \* _disconnect_event
    availableEvent,      \* _available_event
    initialConnectEvent, \* _initial_connect_event
    connectionTask,      \* _connection_task is not None
    available,           \* _available
    responseWaiter,      \* _response_waiter and the state of its future
    lastCommandedZone,   \* _last_commanded_zone
    lockOwner,           \* holder of _command_lock
    lockQueue,           \* tasks waiting in _command_lock, in FIFO order
    loopPc,              \* where _connection_loop is suspended
    cancelReq,           \* the loop task was cancelled, CancelledError not yet raised
    backoff,             \* _connection_loop: backoff
    initialAttemptDone,  \* _connection_loop: initial_attempt_done
    jitter,              \* _connection_loop: jitter
    delay,               \* argument of the last asyncio.sleep since the last success
    portOk,              \* the serial port can be opened
    pc,                  \* where each send_command call is suspended
    args,                \* arguments of each send_command call
    result,              \* how each send_command call completed
    written,             \* the bytes the call has passed to _protocol.write
    firstParsed,         \* first state parsed while the call awaits its response
    stoppedDuring,       \* stop() was invoked while the call, still running, was suspended
    lostDuring,          \* the session failed while the call, still running, awaited its response
    lastNotified,        \* last value passed to on_connection_change
    notifyTick,          \* flips at every call of on_connection_change
    ctlPc,               \* where the task calling start() / stop() is
    startResult,         \* value returned by the last start()
    feed,                \* a parser used on its own: bytes to feed, bytes fed, frames returned
    parse,               \* a parse_state call: its arguments and its result
    api,                 \* a BreatheAudioAPI: its fields and the command in progress
    data,                \* a BreatheAudioData: its fields and the observers last called
    pipe,                \* a recorded byte stream for data_received and the calls _handle_data makes
    wire                 \* a BreatheAudioAPI used by concurrent commands, and its protocol

mgrVars == <<buffer, protocol, transportOpen, lostPending, stopEvent, disconnectEvent,
             availableEvent, initialConnectEvent, connectionTask, available,
             responseWaiter, lastCommandedZone, lockOwner, lockQueue>>
loopVars == <<loopPc, cancelReq, backoff, initialAttemptDone, jitter, delay>>
callVars == <<pc, args, result, written, firstParsed, stoppedDuring, lostDuring>>
obsVars == <<lastNotified, notifyTick>>
ctlVars == <<ctlPc, startResult>>
vars == <<mgrVars, loopVars, callVars, obsVars, ctlVars, portOk, feed, parse, api, data,
          pipe, wire>>

\* SerialConnectionManager.__init__; no call is in progress
InitManager ==
    /\ buffer = <<>>
    /\ protocol = FALSE
    /\ transportOpen = FALSE
    /\ lostPending = FALSE
    /\ stopEvent = FALSE
    /\ disconnectEvent = FALSE
    /\ availableEvent = FALSE
    /\ initialConnectEvent = FALSE
    /\ connectionTask = FALSE
    /\ available = FALSE
    /\ responseWaiter = NoWaiter
    /\ lastCommandedZone = NoZone
    /\ lockOwner = NoCaller
    /\ lockQueue = <<>>
    /\ loopPc = "none"
    /\ cancelReq = FALSE
    /\ backoff = BackoffFloor
    /\ initialAttemptDone = FALSE
    /\ jitter = 0
    /\ delay = 0
    /\ portOk \in BOOLEAN
    /\ pc = [c \in Callers |-> "idle"]
    /\ args = [c \in Callers |-> CHOOSE a \in CallArgs : a.zone = 1]
    /\ result = [c \in Callers |-> NoResult]
    /\ written = [c \in Callers |-> <<>>]
    /\ firstParsed = [c \in Callers |-> NoState]
    /\ stoppedDuring = [c \in Callers |-> FALSE]
    /\ lostDuring = [c \in Callers |-> FALSE]
    /\ lastNotified = "none"
    /\ notifyTick = 0
    /\ ctlPc = "idle"
    /\ startResult = FALSE

\* the manager after construction; its parser is not used on its own
Init ==
    /\ InitManager
    /\ feed = NoFeed
    /\ parse = NoParse
    /\ api = NewApi
    /\ data = NewData
    /\ pipe = NoPipe
    /\ wire = NewWire

\* ------------------------------------------------------------------------
\* SerialConnectionManager: helpers
\* ------------------------------------------------------------------------

\* the argument of on_connection_change, as text
BoolName(v) == IF v THEN "true" ELSE "false"

\* _set_available without its early return
AvailabilityAlwaysChanges(v) == TRUE

\* _set_available: the early return when the flag already has the value
AvailabilityChanges(v) == available # v

\* a _set_available that can run only while no call holds the command lock
SetAvailableUnderLock(v) ==
    /\ lockOwner = NoCaller
    /\ IF AvailabilityChanges(v)
       THEN /\ available' = v
            /\ availableEvent' = v
            /\ lastNotified' = BoolName(v)
            /\ notifyTick' = 1 - notifyTick
            /\ pc' = [c \in Callers |->
                        IF v /\ pc[c] = "avail" THEN "availWoken" ELSE pc[c]]
       ELSE UNCHANGED <<available, availableEvent, lastNotified, notifyTick, pc>>

\* a _set_available that only ever raises the flag
SetAvailableNeverFalse(v) ==
    IF v /\ AvailabilityChanges(v)
    THEN /\ available' = v
         /\ availableEvent' = v
         /\ lastNotified' = BoolName(v)
         /\ notifyTick' = 1 - notifyTick
         /\ pc' = [c \in Callers |-> IF pc[c] = "avail" THEN "availWoken" ELSE pc[c]]
    ELSE UNCHANGED <<available, availableEvent, lastNotified, notifyTick, pc>>

\* _set_available(v): flag, event (which wakes the calls waiting on it) and
\* the on_connection_change callback
SetAvailable(v) ==
    IF AvailabilityChanges(v)
    THEN /\ available' = v
         /\ availableEvent' = v
         /\ lastNotified' = BoolName(v)
         /\ notifyTick' = 1 - notifyTick
         /\ pc' = [c \in Callers |->
                     IF v /\ pc[c] = "avail" THEN "availWoken" ELSE pc[c]]
    ELSE UNCHANGED <<available, availableEvent, lastNotified, notifyTick, pc>>

\* a cleanup that closes the protocol but keeps the reference to it
CleanupTransportKeepsProtocol ==
    /\ protocol' = protocol
    /\ transportOpen' = FALSE
    /\ lostPending' = (lostPending \/ (protocol /\ transportOpen))

\* _SerialProtocol.close on the current protocol, then _protocol = None:
\* closing an open transport makes it schedule connection_lost
CleanupTransport ==
    /\ protocol' = FALSE
    /\ transportOpen' = FALSE
    /\ lostPending' = (lostPending \/ (protocol /\ transportOpen))

\* a lock that never makes a caller wait
LockFreeUnguarded == TRUE

\* asyncio.Lock.acquire without suspension: unlocked and nobody queued
LockFree == lockOwner = NoCaller /\ lockQueue = <<>>

\* _wait_for_available returning the state of the event instead of the flag
ConnectedAfterWaitEvent == availableEvent

\* _wait_for_available after the event was set: "return self._available"
ConnectedAfterWait == available

\* send_command without its "finally": the waiter stays registered
WaiterKept(w) == w

\* the "finally" of send_command
WaiterAfterWait(w) == NoWaiter

\* set_result without the done() check: a later frame replaces the result
ResolveWaiterOverwrite(w, state) ==
    IF w.st # "none" THEN [st |-> "done", result |-> state] ELSE w

\* _handle_data: set_result on a waiter that is not done
ResolveWaiter(w, state) ==
    IF w.st = "pending" THEN [st |-> "done", result |-> state] ELSE w

\* the states parse_state yields for the frames of one chunk, in order
RECURSIVE ParsedStates(_, _)
ParsedStates(frames, last_zone) ==
    IF frames = <<>> THEN <<>>
    ELSE LET state == ParseState(Head(frames), last_zone)
         IN  IF state = NoState
             THEN ParsedStates(Tail(frames), last_zone)
             ELSE <<state>> \o ParsedStates(Tail(frames), last_zone)

\* a _handle_data that keeps the first state for whoever asks next, waiter
\* or not
ResolveAllLatching(w, states) ==
    IF states = <<>> \/ w.st = "done" THEN w
    ELSE [st |-> "done", result |-> states[1]]

\* _handle_data: the waiter after the states of one chunk
RECURSIVE ResolveAll(_, _)
ResolveAll(w, states) ==
    IF states = <<>> THEN w
    ELSE ResolveAll(ResolveWaiter(w, Head(states)), Tail(states))

\* a _handle_data that resolves the waiter before it calls the observer
RECURSIVE DispatchResultFirst(_, _, _, _)
DispatchResultFirst(w, frames, last_zone, events) ==
    IF frames = <<>> THEN [waiter |-> w, events |-> events]
    ELSE LET state == ParseState(Head(frames), last_zone)
         IN  IF state = NoState
             THEN DispatchResultFirst(w, Tail(frames), last_zone, events)
             ELSE DispatchResultFirst(
                      ResolveWaiter(w, state), Tail(frames), last_zone,
                      events
                        \o (IF w.st = "pending"
                            THEN <<[call |-> "set_result", state |-> state]>>
                            ELSE <<>>)
                        \o <<[call |-> "on_state", state |-> state]>>)

\* a _handle_data that leaves its loop at the first frame without a state
RECURSIVE DispatchUntilBad(_, _, _, _)
DispatchUntilBad(w, frames, last_zone, events) ==
    IF frames = <<>> THEN [waiter |-> w, events |-> events]
    ELSE LET state == ParseState(Head(frames), last_zone)
         IN  IF state = NoState
             THEN [waiter |-> w, events |-> events]
             ELSE DispatchUntilBad(
                      ResolveWaiter(w, state), Tail(frames), last_zone,
                      events
                        \o <<[call |-> "on_state", state |-> state]>>
                        \o (IF w.st = "pending"
                            THEN <<[call |-> "set_result", state |-> state]>>
                            ELSE <<>>))

\* _handle_data: the "for frame in frames" loop; events lists, in order, the
\* calls it makes to on_state and to set_result
RECURSIVE Dispatch(_, _, _, _)
Dispatch(w, frames, last_zone, events) ==
    IF frames = <<>> THEN [waiter |-> w, events |-> events]
    ELSE LET state == ParseState(Head(frames), last_zone)
         IN  IF state = NoState
             THEN Dispatch(w, Tail(frames), last_zone, events)
             ELSE Dispatch(
                      ResolveWaiter(w, state), Tail(frames), last_zone,
                      events
                        \o <<[call |-> "on_state", state |-> state]>>
                        \o (IF w.st = "pending"
                            THEN <<[call |-> "set_result", state |-> state]>>
                            ELSE <<>>))

\* the states passed to on_state by a list of calls
RECURSIVE Observed(_)
Observed(events) ==
    IF events = <<>> THEN <<>>
    ELSE IF Head(events).call = "on_state"
         THEN <<Head(events).state>> \o Observed(Tail(events))
         ELSE Observed(Tail(events))

\* the sleep without its cap: backoff plus jitter
SleepDelayUncapped(b, j) == b + j

\* _connection_loop: the argument of asyncio.sleep and the next backoff
SleepDelay(b, j) == Min(b + j, SleepCap)
NextBackoff(b) == Min(b * 2, BackoffCap)

\* a success that leaves the backoff where the failures brought it
BackoffKept(b) == b

\* _connection_loop: "backoff = 0.5" after a successful _connect
BackoffAfterSuccess(b) == BackoffFloor

\* a loop that ends after its "finally" whether or not stop was requested
AfterFinallyGiveUp(stopped) == "done"

\* _connection_loop after its "finally": leave on stop, else sleep
AfterFinally(stopped) == IF stopped THEN "done" ELSE "sleeping"

\* the call is suspended in send_command, waiting for availability or for
\* its response
Suspended(c) ==
    \/ pc[c] = "avail"
    \/ pc[c] = "resp" /\ responseWaiter.st = "pending"

\* a call that completes no longer bears the marks of what happened to it
\* while it was suspended
ClearMarks(c) ==
    /\ stoppedDuring' = [stoppedDuring EXCEPT ![c] = IF pc'[c] = "done" THEN FALSE ELSE @]
    /\ lostDuring' = [lostDuring EXCEPT ![c] = IF pc'[c] = "done" THEN FALSE ELSE @]

\* a payload without its terminator
FramedCommandNoTerminator(command) == command

\* send_command: the payload is the command text followed by the terminator
FramedCommand(command) == command \o <<COMMAND_TERMINATOR>>

\* a waiter registered whether or not a response is awaited
WaiterAlwaysRegistered(a, w) == PendingWaiter

\* send_command: the waiter is registered only "if wait_for_response"
WaiterAtWrite(a, w) == IF a.wait THEN PendingWaiter ELSE w

\* send_command from the _protocol check to the wait for the response
\* (no suspension in between), for call c with arguments a; r, w and f are
\* result, written and firstParsed as the call found them
Proceed(c, a, r, w, f) ==
    IF ~protocol
    THEN /\ pc' = [pc EXCEPT ![c] = "done"]
         /\ result' = [r EXCEPT ![c] = [kind |-> "none", state |-> NoState]]
         /\ lockOwner' = NoCaller
         /\ written' = w
         /\ firstParsed' = f
         /\ UNCHANGED responseWaiter
    ELSE /\ responseWaiter' = WaiterAtWrite(a, responseWaiter)
         /\ written' = [w EXCEPT ![c] = @ \o FramedCommand(a.command)]
         /\ firstParsed' = [f EXCEPT ![c] = NoState]
         /\ IF a.wait
            THEN /\ pc' = [pc EXCEPT ![c] = "resp"]
                 /\ lockOwner' = c
                 /\ result' = r
            ELSE /\ pc' = [pc EXCEPT ![c] = "done"]
                 /\ result' = [r EXCEPT ![c] = [kind |-> "none", state |-> NoState]]
                 /\ lockOwner' = NoCaller

\* send_command right after the lock is acquired
EnterLocked(c, a, r, w, f) ==
    IF available
    THEN Proceed(c, a, r, w, f)
    ELSE /\ pc' = [pc EXCEPT ![c] = IF availableEvent THEN "availWoken" ELSE "avail"]
         /\ lockOwner' = c
         /\ result' = r
         /\ written' = w
         /\ firstParsed' = f
         /\ UNCHANGED responseWaiter

\* ------------------------------------------------------------------------
\* send_command
\* ------------------------------------------------------------------------

\* a task calls send_command(a.command, a.zone, a.wait): it records the
\* zone and takes the lock, or queues for it
SendCommand(c, a) ==
    /\ pc[c] \in {"idle", "done"}
    /\ args' = [args EXCEPT ![c] = a]
    /\ lastCommandedZone' = IF a.zone # NoZone THEN a.zone ELSE lastCommandedZone
    /\ stoppedDuring' = [stoppedDuring EXCEPT ![c] = FALSE]
    /\ lostDuring' = [lostDuring EXCEPT ![c] = FALSE]
    /\ LET r == [result EXCEPT ![c] = NoResult]
           w == [written EXCEPT ![c] = <<>>]
           f == [firstParsed EXCEPT ![c] = NoState]
       IN  IF LockFree
           THEN /\ EnterLocked(c, a, r, w, f)
                /\ UNCHANGED lockQueue
           ELSE /\ pc' = [pc EXCEPT ![c] = "lock"]
                /\ lockQueue' = Append(lockQueue, c)
                /\ result' = r
                /\ written' = w
                /\ firstParsed' = f
                /\ UNCHANGED <<lockOwner, responseWaiter>>
    /\ UNCHANGED <<pipe, wire, feed, parse, api, data, buffer, protocol, transportOpen, lostPending, stopEvent,
                   disconnectEvent, availableEvent, initialConnectEvent,
                   connectionTask, available, loopVars, lastNotified,
                   notifyTick, ctlVars, portOk>>

\* the released lock wakes the first queued call, which enters
LockAcquired(c) ==
    /\ lockOwner = NoCaller
    /\ lockQueue # <<>>
    /\ c = Head(lockQueue)
    /\ pc[c] = "lock"
    /\ lockQueue' = Tail(lockQueue)
    /\ EnterLocked(c, args[c], result, written, firstParsed)
    /\ ClearMarks(c)
    /\ UNCHANGED <<pipe, wire, feed, parse, api, data, buffer, protocol, transportOpen, lostPending, stopEvent,
                   disconnectEvent, availableEvent, initialConnectEvent,
                   connectionTask, available, lastCommandedZone, loopVars, args, lastNotified,
                   notifyTick, ctlVars, portOk>>

\* _wait_for_available: the event was set; "return self._available"
AvailableArrived(c) ==
    /\ pc[c] = "availWoken"
    /\ IF ConnectedAfterWait
       THEN Proceed(c, args[c], result, written, firstParsed)
       ELSE /\ pc' = [pc EXCEPT ![c] = "done"]
            /\ result' = [result EXCEPT ![c] = [kind |-> "none", state |-> NoState]]
            /\ lockOwner' = NoCaller
            /\ UNCHANGED <<responseWaiter, written, firstParsed>>
    /\ ClearMarks(c)
    /\ UNCHANGED <<pipe, wire, feed, parse, api, data, buffer, protocol, transportOpen, lostPending, stopEvent,
                   disconnectEvent, availableEvent, initialConnectEvent,
                   connectionTask, available, lastCommandedZone, lockQueue, loopVars,
                   args, lastNotified,
                   notifyTick, ctlVars, portOk>>

\* a wait for availability with no timeout
AvailableWaitsForever(c) ==
    /\ pc[c] = "avail"
    /\ UNCHANGED vars

\* _wait_for_available: asyncio.TimeoutError, the command is dropped
AvailableTimeout(c) ==
    /\ pc[c] = "avail"
    /\ pc' = [pc EXCEPT ![c] = "done"]
    /\ result' = [result EXCEPT ![c] = [kind |-> "none", state |-> NoState]]
    /\ lockOwner' = NoCaller
    /\ ClearMarks(c)
    /\ UNCHANGED <<pipe, wire, feed, parse, api, data, buffer, protocol, transportOpen, lostPending, stopEvent,
                   disconnectEvent, availableEvent, initialConnectEvent,
                   connectionTask, available, responseWaiter, lastCommandedZone,
                   lockQueue, loopVars, args, written, firstParsed, obsVars, ctlVars, portOk>>

\* wait_for(response_future): the future has its result
ResponseArrived(c) ==
    /\ pc[c] = "resp"
    /\ responseWaiter.st = "done"
    /\ pc' = [pc EXCEPT ![c] = "done"]
    /\ result' = [result EXCEPT ![c] = [kind |-> "state", state |-> responseWaiter.result]]
    /\ responseWaiter' = WaiterAfterWait(responseWaiter)
    /\ lockOwner' = NoCaller
    /\ firstParsed' = [firstParsed EXCEPT ![c] = NoState]
    /\ ClearMarks(c)
    /\ UNCHANGED <<pipe, wire, feed, parse, api, data, buffer, protocol, transportOpen, lostPending, stopEvent,
                   disconnectEvent, availableEvent, initialConnectEvent,
                   connectionTask, available, lastCommandedZone, lockQueue, loopVars,
                   args, written,
                   obsVars, ctlVars, portOk>>

\* wait_for(response_future): asyncio.TimeoutError leaves send_command
ResponseTimeout(c) ==
    /\ pc[c] = "resp"
    /\ responseWaiter.st = "pending"
    /\ pc' = [pc EXCEPT ![c] = "done"]
    /\ result' = [result EXCEPT ![c] = [kind |-> "timeout", state |-> NoState]]
    /\ responseWaiter' = WaiterAfterWait(responseWaiter)
    /\ lockOwner' = NoCaller
    /\ firstParsed' = [firstParsed EXCEPT ![c] = NoState]
    /\ ClearMarks(c)
    /\ UNCHANGED <<pipe, wire, feed, parse, api, data, buffer, protocol, transportOpen, lostPending, stopEvent,
                   disconnectEvent, availableEvent, initialConnectEvent,
                   connectionTask, available, lastCommandedZone, lockQueue, loopVars,
                   args, written,
                   obsVars, ctlVars, portOk>>

\* ------------------------------------------------------------------------
\* callbacks of the serial transport
\* ------------------------------------------------------------------------

\* data_received -> _handle_data(chunk), but for the record of its calls
HandleChunk(chunk) ==
    /\ protocol
    /\ transportOpen
    /\ LET fed == FeedData(buffer, chunk)
           states == ParsedStates(fed.frames, lastCommandedZone)
       IN  /\ buffer' = fed.buffer
           /\ responseWaiter' = ResolveAll(responseWaiter, states)
           /\ firstParsed' = [c \in Callers |->
                                IF /\ pc[c] = "resp"
                                   /\ firstParsed[c] = NoState
                                   /\ states # <<>>
                                THEN states[1] ELSE firstParsed[c]]
    /\ UNCHANGED <<wire, feed, parse, api, data, protocol, transportOpen, lostPending, stopEvent, disconnectEvent,
                   availableEvent, initialConnectEvent, connectionTask, available,
                   lastCommandedZone, lockOwner, lockQueue, loopVars, pc, args, result,
                   written, stoppedDuring, lostDuring,
                   lastNotified, notifyTick, ctlVars, portOk>>

\* data_received -> _handle_data(chunk)
HandleData(chunk) ==
    /\ HandleChunk(chunk)
    /\ UNCHANGED pipe

\* data_received -> _handle_data on the next n bytes of the recorded stream,
\* with the calls to on_state and set_result written down
Receive(n) ==
    /\ pipe.fed + n <= Len(pipe.input)
    /\ LET chunk == SubSeq(pipe.input, pipe.fed + 1, pipe.fed + n)
           frames == FeedData(buffer, chunk).frames
           d == Dispatch(responseWaiter, frames, lastCommandedZone, <<>>)
       IN  /\ HandleChunk(chunk)
           /\ pipe' = [pipe EXCEPT !.fed = @ + n,
                                   !.events = d.events,
                                   !.observed = @ \o Observed(d.events)]

\* the serial link fails (cable pulled, device gone): the transport aborts
\* and schedules connection_lost
TransportFailure ==
    /\ protocol
    /\ transportOpen
    /\ transportOpen' = FALSE
    /\ lostPending' = TRUE
    /\ lostDuring' = [c \in Callers |-> lostDuring[c] \/ Suspended(c)]
    /\ UNCHANGED <<pipe, wire, feed, parse, api, data, buffer, protocol, stopEvent, disconnectEvent, availableEvent,
                   initialConnectEvent, connectionTask, available, responseWaiter,
                   lastCommandedZone, lockOwner, lockQueue, loopVars, pc, args,
                   result, written, firstParsed, stoppedDuring, obsVars,
                   ctlVars, portOk>>

\* connection_lost -> _handle_disconnect
HandleDisconnect ==
    /\ lostPending
    /\ lostPending' = FALSE
    /\ disconnectEvent' = TRUE
    /\ UNCHANGED <<pipe, wire, feed, parse, api, data, buffer, protocol, transportOpen, stopEvent, availableEvent,
                   initialConnectEvent, connectionTask, available, responseWaiter,
                   lastCommandedZone, lockOwner, lockQueue, loopVars, callVars,
                   obsVars, ctlVars, portOk>>

\* the port becomes openable or stops being so
PortChange ==
    /\ portOk' = ~portOk
    /\ UNCHANGED <<pipe, wire, feed, parse, api, data, mgrVars, loopVars, callVars, obsVars, ctlVars>>

\* ------------------------------------------------------------------------
\* _connection_loop
\* ------------------------------------------------------------------------

\* after the "finally": "if self._stop_event.is_set(): break", else draw
\* the jitter and sleep
SleepOrExit ==
    /\ loopPc' = AfterFinally(stopEvent)
    /\ IF loopPc' = "sleeping"
       THEN \E j \in JitterValues :
                /\ jitter' = j
                /\ delay' = SleepDelay(backoff', j)
       ELSE UNCHANGED <<jitter, delay>>

\* the task runs for the first time, up to "await self._connect()"
LoopBegin ==
    /\ loopPc = "created"
    /\ ~cancelReq
    /\ backoff' = BackoffFloor
    /\ initialAttemptDone' = FALSE
    /\ loopPc' = IF stopEvent THEN "done" ELSE "connecting"
    /\ UNCHANGED <<pipe, wire, feed, parse, api, data, mgrVars, cancelReq, jitter, delay, callVars, obsVars,
                   ctlVars, portOk>>

\* _connect returns: available, first attempt resolved, backoff reset, and
\* the loop waits for a disconnect or a stop.  The transport's
\* connection_made callback is taken as delivered together with the return
\* of create_serial_connection, so the protocol can write from here on.
ConnectSuccess ==
    /\ loopPc = "connecting"
    /\ ~cancelReq
    /\ portOk
    /\ protocol' = TRUE
    /\ transportOpen' = TRUE
    /\ SetAvailable(TRUE)
    /\ initialConnectEvent' = (initialConnectEvent \/ ~initialAttemptDone)
    /\ initialAttemptDone' = TRUE
    /\ backoff' = BackoffAfterSuccess(backoff)
    /\ loopPc' = "connected"
    /\ delay' = 0
    /\ UNCHANGED <<pipe, wire, feed, parse, api, data, buffer, lostPending, stopEvent, disconnectEvent, connectionTask,
                   responseWaiter, lastCommandedZone, lockOwner, lockQueue, cancelReq,
                   jitter, args, result, written, firstParsed, stoppedDuring,
                   lostDuring, ctlVars, portOk>>

\* _connect raises: "except Exception", "finally", then the backoff sleep
ConnectFail ==
    /\ loopPc = "connecting"
    /\ ~cancelReq
    /\ ~portOk
    /\ initialConnectEvent' = (initialConnectEvent \/ ~initialAttemptDone)
    /\ initialAttemptDone' = TRUE
    /\ SetAvailable(FALSE)
    /\ CleanupTransport
    /\ backoff' = backoff
    /\ SleepOrExit
    /\ UNCHANGED <<pipe, wire, feed, parse, api, data, buffer, stopEvent, disconnectEvent, connectionTask, responseWaiter,
                   lastCommandedZone, lockOwner, lockQueue, cancelReq, args, result,
                   written, firstParsed, stoppedDuring, lostDuring, ctlVars, portOk>>

\* asyncio.wait returns: stop_task done -> break; disconnect_task done ->
\* clear the event; "finally"; then leave or sleep
LoopDisconnected ==
    /\ loopPc = "connected"
    /\ ~cancelReq
    /\ disconnectEvent \/ stopEvent
    /\ disconnectEvent' = IF stopEvent THEN disconnectEvent ELSE FALSE
    /\ SetAvailable(FALSE)
    /\ CleanupTransport
    /\ backoff' = backoff
    /\ SleepOrExit
    /\ UNCHANGED <<pipe, wire, feed, parse, api, data, buffer, stopEvent, initialConnectEvent, connectionTask,
                   responseWaiter, lastCommandedZone, lockOwner, lockQueue, cancelReq,
                   initialAttemptDone, args, result, written, firstParsed,
                   stoppedDuring, lostDuring, ctlVars, portOk>>

\* asyncio.sleep returns: double the backoff and try again
LoopWake ==
    /\ loopPc = "sleeping"
    /\ ~cancelReq
    /\ backoff' = NextBackoff(backoff)
    /\ loopPc' = IF stopEvent THEN "done" ELSE "connecting"
    /\ UNCHANGED <<pipe, wire, feed, parse, api, data, mgrVars, cancelReq, initialAttemptDone, jitter, delay,
                   callVars, obsVars, ctlVars, portOk>>

\* CancelledError is raised where the loop is suspended; inside the "try"
\* the "finally" runs
LoopCancelled ==
    /\ cancelReq
    /\ loopPc \in {"created", "connecting", "connected", "sleeping"}
    /\ cancelReq' = FALSE
    /\ loopPc' = "done"
    /\ IF loopPc \in {"connecting", "connected"}
       THEN SetAvailable(FALSE) /\ CleanupTransport
       ELSE UNCHANGED <<available, availableEvent, lastNotified, notifyTick, pc,
                        protocol, transportOpen, lostPending>>
    /\ UNCHANGED <<pipe, wire, feed, parse, api, data, buffer, stopEvent, disconnectEvent, initialConnectEvent,
                   connectionTask, responseWaiter, lastCommandedZone, lockOwner,
                   lockQueue, backoff, initialAttemptDone, jitter, delay,
                   args, result, written, firstParsed, stoppedDuring,
                   lostDuring, ctlVars, portOk>>

\* ------------------------------------------------------------------------
\* start and stop
\* ------------------------------------------------------------------------

\* start() while the task exists: "return self._available"
StartWhileRunning ==
    /\ ctlPc = "idle"
    /\ connectionTask
    /\ startResult' = available
    /\ UNCHANGED <<pipe, wire, feed, parse, api, data, mgrVars, loopVars, callVars, obsVars, ctlPc, portOk>>

\* start(): clear the stop event, create the task, wait for the first attempt
StartCall ==
    /\ ctlPc = "idle"
    /\ ~connectionTask
    /\ stopEvent' = FALSE
    /\ connectionTask' = TRUE
    /\ loopPc' = "created"
    /\ backoff' = BackoffFloor
    /\ initialAttemptDone' = FALSE
    /\ delay' = 0
    /\ ctlPc' = "starting"
    /\ UNCHANGED <<pipe, wire, feed, parse, api, data, buffer, protocol, transportOpen, lostPending, disconnectEvent,
                   availableEvent, initialConnectEvent, available, responseWaiter,
                   lastCommandedZone, lockOwner, lockQueue, cancelReq, jitter,
                   callVars, obsVars, startResult, portOk>>

\* start(): _initial_connect_event is set
StartReturn ==
    /\ ctlPc = "starting"
    /\ initialConnectEvent
    /\ ctlPc' = "idle"
    /\ startResult' = available
    /\ UNCHANGED <<pipe, wire, feed, parse, api, data, mgrVars, loopVars, callVars, obsVars, portOk>>

\* start(): the 2 s of wait_for have elapsed
StartTimeout ==
    /\ ctlPc = "starting"
    /\ ~initialConnectEvent
    /\ ctlPc' = "idle"
    /\ startResult' = available
    /\ UNCHANGED <<pipe, wire, feed, parse, api, data, mgrVars, loopVars, callVars, obsVars, portOk>>

\* stop() with a task: set the stop event, clear the available event, close
\* the protocol, cancel the task and await it
StopCall ==
    /\ ctlPc = "idle"
    /\ connectionTask
    /\ stopEvent' = TRUE
    /\ availableEvent' = FALSE
    /\ transportOpen' = FALSE
    /\ lostPending' = (lostPending \/ (protocol /\ transportOpen))
    /\ cancelReq' = (loopPc # "done")
    /\ ctlPc' = "stopping"
    /\ stoppedDuring' = [c \in Callers |-> stoppedDuring[c] \/ Suspended(c)]
    /\ UNCHANGED <<pipe, wire, feed, parse, api, data, buffer, protocol, disconnectEvent, initialConnectEvent,
                   connectionTask, available, responseWaiter, lastCommandedZone,
                   lockOwner, lockQueue, loopPc, backoff, initialAttemptDone, jitter,
                   delay, pc, args, result, written, firstParsed,
                   lostDuring, obsVars, startResult, portOk>>

\* stop() without a task: nothing to await, the whole body runs at once
StopIdle ==
    /\ ctlPc = "idle"
    /\ ~connectionTask
    /\ stopEvent' = TRUE
    /\ CleanupTransport
    /\ available' = FALSE
    /\ availableEvent' = FALSE
    /\ lastNotified' = IF AvailabilityChanges(FALSE) THEN BoolName(FALSE) ELSE lastNotified
    /\ notifyTick' = IF AvailabilityChanges(FALSE) THEN 1 - notifyTick ELSE notifyTick
    /\ UNCHANGED <<pipe, wire, feed, parse, api, data, buffer, disconnectEvent, initialConnectEvent, connectionTask,
                   stoppedDuring,
                   responseWaiter, lastCommandedZone, lockOwner, lockQueue, loopVars,
                   pc, args, result, written, firstParsed, lostDuring, ctlVars, portOk>>

\* stop() after the task has ended: drop it, clean up, availability false
StopFinish ==
    /\ ctlPc = "stopping"
    /\ loopPc = "done"
    /\ connectionTask' = FALSE
    /\ loopPc' = "none"
    /\ CleanupTransport
    /\ SetAvailable(FALSE)
    /\ ctlPc' = "idle"
    /\ UNCHANGED <<pipe, wire, feed, parse, api, data, buffer, stopEvent, disconnectEvent, initialConnectEvent,
                   responseWaiter, lastCommandedZone, lockOwner, lockQueue, cancelReq,
                   backoff, initialAttemptDone, jitter, delay, args, result,
                   written, firstParsed, stoppedDuring, lostDuring, startResult, portOk>>

\* ------------------------------------------------------------------------
\* SerialMessageParser used on its own
\* ------------------------------------------------------------------------

\* feed_data: the raw bytes before each terminator of buf ("raw"), in order
RECURSIVE RawExtents(_)
RawExtents(buf) ==
    LET idx == Find(buf, COMMAND_TERMINATOR)
    IN  IF idx = 0 THEN <<>>
        ELSE <<SubSeq(buf, 1, idx - 1)>> \o RawExtents(Drop(buf, idx))

\* feed_data: "if text: frames.append(text)" on a raw extent
YieldsFrame(raw) == Strip(DecodeAscii(raw)) # <<>>

RECURSIVE KeptExtents(_)
KeptExtents(segs) ==
    IF segs = <<>> THEN <<>>
    ELSE IF YieldsFrame(Head(segs))
         THEN <<Head(segs)>> \o KeptExtents(Tail(segs))
         ELSE KeptExtents(Tail(segs))

\* the next n bytes of the stream are passed to feed_data in one call
Feed(n) ==
    /\ feed.fed + n <= Len(feed.input)
    /\ LET chunk == SubSeq(feed.input, feed.fed + 1, feed.fed + n)
           r == FeedData(buffer, chunk)
           segs == RawExtents(buffer \o chunk)
       IN  /\ buffer' = r.buffer
           /\ feed' = [feed EXCEPT !.fed = @ + n,
                                   !.calls = @ + 1,
                                   !.lastLen = n,
                                   !.frames = @ \o r.frames,
                                   !.last = r.frames,
                                   !.segments = @ \o segs,
                                   !.kept = @ \o KeptExtents(segs)]
    /\ UNCHANGED <<protocol, transportOpen, lostPending, stopEvent, disconnectEvent,
                   availableEvent, initialConnectEvent, connectionTask, available,
                   responseWaiter, lastCommandedZone, lockOwner, lockQueue,
                   loopVars, callVars, obsVars, ctlVars, portOk, parse, api, data,
                   pipe, wire>>

\* parse_state(message, last_zone) is called on the text of the frame
ParseCall ==
    /\ ~parse.done
    /\ parse' = [parse EXCEPT !.done = TRUE,
                              !.state = ParseState(Render(parse.frame), parse.last_zone)]
    /\ UNCHANGED <<mgrVars, loopVars, callVars, obsVars, ctlVars, portOk, feed, api, data,
                   pipe, wire>>

\* ------------------------------------------------------------------------
\* specification
\* ------------------------------------------------------------------------

Next ==
    \/ \E c \in Callers, a \in CallArgs : SendCommand(c, a)
    \/ \E c \in Callers : LockAcquired(c)
    \/ \E c \in Callers : AvailableArrived(c)
    \/ \E c \in Callers : AvailableTimeout(c)
    \/ \E c \in Callers : ResponseArrived(c)
    \/ \E c \in Callers : ResponseTimeout(c)
    \/ \E chunk \in Chunks : HandleData(chunk)
    \/ TransportFailure
    \/ HandleDisconnect
    \/ PortChange
    \/ LoopBegin
    \/ ConnectSuccess
    \/ ConnectFail
    \/ LoopDisconnected
    \/ LoopWake
    \/ LoopCancelled
    \/ StartWhileRunning
    \/ StartCall
    \/ StartReturn
    \/ StartTimeout
    \/ StopCall
    \/ StopIdle
    \/ StopFinish

Spec == Init /\ [][Next]_vars

\* the supervisor alone: the connection loop, start/stop and the serial
\* link, with no send_command call and no incoming data
NextSup ==
    \/ TransportFailure
    \/ HandleDisconnect
    \/ PortChange
    \/ LoopBegin
    \/ ConnectSuccess
    \/ ConnectFail
    \/ LoopDisconnected
    \/ LoopWake
    \/ LoopCancelled
    \/ StartWhileRunning
    \/ StartCall
    \/ StartReturn
    \/ StartTimeout
    \/ StopCall
    \/ StopIdle
    \/ StopFinish

SpecSup == Init /\ [][NextSup]_vars

\* the event loop runs every task step and callback that is ready, a
\* connection attempt ends and a sleep ends
LoopFairness ==
    /\ WF_vars(LoopBegin)
    /\ WF_vars(ConnectSuccess)
    /\ WF_vars(ConnectFail)
    /\ WF_vars(LoopDisconnected)
    /\ WF_vars(LoopWake)
    /\ WF_vars(LoopCancelled)
    /\ WF_vars(HandleDisconnect)

FairSup == SpecSup /\ LoopFairness

\* every send_command call that can run does run, and its timeouts fire
CallFairness ==
    \A c \in Callers :
        /\ WF_vars(LockAcquired(c))
        /\ WF_vars(AvailableArrived(c))
        /\ WF_vars(AvailableTimeout(c))
        /\ WF_vars(ResponseArrived(c))
        /\ WF_vars(ResponseTimeout(c))

\* send_command calls against a manager that is started and not stopped: the
\* calls, the incoming data, the loss of the link and the connection loop
NextCalls ==
    \/ \E c \in Callers, a \in CallArgs : SendCommand(c, a)
    \/ \E c \in Callers : LockAcquired(c)
    \/ \E c \in Callers : AvailableArrived(c)
    \/ \E c \in Callers : AvailableTimeout(c)
    \/ \E c \in Callers : ResponseArrived(c)
    \/ \E c \in Callers : ResponseTimeout(c)
    \/ \E chunk \in Chunks : HandleData(chunk)
    \/ TransportFailure
    \/ HandleDisconnect
    \/ LoopBegin
    \/ ConnectSuccess
    \/ ConnectFail
    \/ LoopDisconnected
    \/ LoopWake
    \/ StartCall
    \/ StartReturn
    \/ StartTimeout

SpecCalls == Init /\ [][NextCalls]_vars

FairCalls == SpecCalls /\ CallFairness

\* one task sends commands to a started manager whose port opens, while the
\* device's byte stream arrives in chunks of any sizes
InitPipe ==
    /\ InitManager
    /\ portOk
    /\ feed = NoFeed
    /\ parse = NoParse
    /\ api = NewApi
    /\ data = NewData
    /\ pipe \in {[NoPipe EXCEPT !.input = i] : i \in PipeInputs}
    /\ wire = NewWire

NextPipe ==
    \/ \E a \in CallArgs : SendCommand("c1", a)
    \/ AvailableArrived("c1")
    \/ AvailableTimeout("c1")
    \/ ResponseArrived("c1")
    \/ ResponseTimeout("c1")
    \/ \E n \in 1..(Len(pipe.input) - pipe.fed) : Receive(n)
    \/ LoopBegin
    \/ ConnectSuccess
    \/ StartCall
    \/ StartReturn

SpecPipe == InitPipe /\ [][NextPipe]_vars

\* a parser on its own is fed a byte stream cut into chunks of any sizes
InitFeed ==
    /\ InitManager
    /\ ~portOk
    /\ feed \in {[NoFeed EXCEPT !.input = i] : i \in FeedInputs}
    /\ parse = NoParse
    /\ api = NewApi
    /\ data = NewData
    /\ pipe = NoPipe
    /\ wire = NewWire

NextFeed == \E n \in 1..(Len(feed.input) - feed.fed) : Feed(n)

SpecFeed == InitFeed /\ [][NextFeed]_vars

\* parse_state is called once on a frame, with or without a last zone
InitParse ==
    /\ InitManager
    /\ ~portOk
    /\ feed = NoFeed
    /\ parse \in {[NoParse EXCEPT !.frame = f, !.last_zone = z] :
                    f \in Frames, z \in LastZones}
    /\ api = NewApi
    /\ data = NewData
    /\ pipe = NoPipe
    /\ wire = NewWire

NextParse == ParseCall

\* parse_state is called once on a frame that holds a bad token
InitBad ==
    /\ InitManager
    /\ ~portOk
    /\ feed = NoFeed
    /\ parse \in {[NoParse EXCEPT !.frame = f, !.last_zone = z] :
                    f \in BadFrames, z \in LastZones}
    /\ api = NewApi
    /\ data = NewData
    /\ pipe = NoPipe
    /\ wire = NewWire

SpecBad == InitBad /\ [][NextParse]_vars

SpecParse == InitParse /\ [][NextParse]_vars

\* ------------------------------------------------------------------------
\* BreatheAudioAPI and BreatheAudioData
\* ------------------------------------------------------------------------

managerVars == <<mgrVars, loopVars, callVars, obsVars, ctlVars, portOk, feed, parse,
                 pipe, wire>>

\* BreatheAudioAPI.connected
Connected(a) == a.connected /\ a.protocol

\* a _notify_listeners that calls the listeners of every zone
ListenersOfAllZones(d, zone) ==
    [zone |-> zone, who |-> d.listeners[1] \o d.listeners[2]]

\* _notify_listeners(zone): the listeners of the zone are called in order
Notified(d, zone) == [zone |-> zone, who |-> d.listeners[zone]]

\* _handle_zone_update(zone, state)
HandleZoneUpdate(d, zone, state) ==
    [d EXCEPT !.zoneData[zone] = Updated(@, state),
              !.jobs = Append(@, zone)]

\* _handle_connection_update(available)
HandleConnectionUpdate(d, v) ==
    [d EXCEPT !.available = v, !.jobs = @ \o ZonesFrom(1)]

\* the connection callback registered by async_start is called with the new
\* value when the connection state of the API changes
ConnectionChanged(d, before, after) ==
    IF d.subscribed /\ before # after
    THEN HandleConnectionUpdate(d, after)
    ELSE d

\* room for the jobs a step adds
JobsFit(d, d2) == Len(d2.jobs) <= MaxJobs \/ d2.jobs = d.jobs

\* the end of a command: the typed command returns, query_zone_status
\* parses the response and async_refresh_zone stores the state it got
Finish(a, d, response) ==
    LET state == IF response = NoResponse THEN NoState ELSE ParseResponse(response)
        zone == a.call.zone
    IN  /\ api' = [a EXCEPT !.pc = "idle", !.call = NoCall, !.written = <<>>]
        /\ data' = IF a.call.kind = "refresh" /\ state # NoState
                   THEN [d EXCEPT !.zoneData[zone] = Replaced(@, state),
                                  !.fired = Notified(d, zone)]
                   ELSE d

\* _send_command from the check of _protocol to the wait for the response
Send(a, d) ==
    IF ~a.protocol THEN Finish(a, d, NoResponse)
    ELSE /\ api' = [a EXCEPT !.responseEvent = FALSE,
                             !.lastResponse = NoResponse,
                             !.written = Append(@, FullCommand(a.call.cmd)),
                             !.pc = "resp"]
         /\ data' = d

\* _send_command is entered: connect() is awaited when not connected
Begin(call) ==
    /\ api.pc = "idle"
    /\ LET a == [api EXCEPT !.call = call, !.written = <<>>]
       IN  IF ~Connected(api)
           THEN /\ api' = [a EXCEPT !.pc = "connecting"]
                /\ data' = data
           ELSE Send(a, data)

\* a typed command is called: out of range it returns at once, in range it
\* goes on into _send_command
TypedCall(method, zone, p) ==
    /\ IF InRange(method, zone, p)
       THEN Begin([cmd |-> CommandText(method, zone, p),
                   kind |-> IF method = "query_zone_status" THEN "query" ELSE "typed",
                   method |-> method, zone |-> zone, param |-> p])
       ELSE /\ api' = [api EXCEPT !.attempt =
                         [method |-> method, zone |-> zone, param |-> p,
                          ret |-> RejectedValue(method)]]
            /\ data' = data
    /\ UNCHANGED managerVars

\* async_refresh_zone(zone) up to its await
RefreshZone(zone) ==
    /\ Begin([cmd |-> CommandText("query_zone_status", zone, 0),
              kind |-> "refresh", method |-> "query_zone_status",
              zone |-> zone, param |-> 0])
    /\ UNCHANGED managerVars

\* connect() opens the port, writes the wake-up terminator and
\* _send_command goes on
ApiConnectSuccess ==
    /\ api.pc = "connecting"
    /\ LET a == [api EXCEPT !.connected = TRUE, !.protocol = TRUE,
                            !.written = Append(@, <<COMMAND_TERMINATOR>>)]
           d == ConnectionChanged(data, Connected(api), TRUE)
       IN  /\ JobsFit(data, d)
           /\ Send(a, d)
    /\ UNCHANGED managerVars

\* connect() fails with a SerialException: _send_command returns None
ApiConnectFail ==
    /\ api.pc = "connecting"
    /\ Finish(api, data, NoResponse)
    /\ UNCHANGED managerVars

\* the wait for _response_event ends: _last_response is returned
ResponseReturned ==
    /\ api.pc = "resp"
    /\ api.responseEvent
    /\ Finish(api, data, api.lastResponse)
    /\ UNCHANGED managerVars

\* the wait for _response_event times out
ApiResponseTimeout ==
    /\ api.pc = "resp"
    /\ ~api.responseEvent
    /\ Finish(api, data, NoResponse)
    /\ UNCHANGED managerVars

\* _handle_message(message)
HandleMessage(message) ==
    /\ Connected(api)
    /\ IF ~StartsWith(message, <<RESPONSE_PREFIX>>)
       THEN UNCHANGED <<api, data>>
       ELSE LET state == ParseResponse(message)
                d == IF state # NoState /\ state.zone \in api.callbacks
                     THEN HandleZoneUpdate(data, state.zone, state)
                     ELSE data
            IN  /\ JobsFit(data, d)
                /\ api' = [api EXCEPT !.lastResponse = message,
                                      !.responseEvent = TRUE]
                /\ data' = d
    /\ UNCHANGED managerVars

\* _handle_disconnect: the protocol reports connection_lost
ApiHandleDisconnect ==
    /\ Connected(api)
    /\ LET d == ConnectionChanged(data, TRUE, FALSE)
       IN  /\ JobsFit(data, d)
           /\ data' = d
    /\ api' = [api EXCEPT !.connected = FALSE, !.responseEvent = TRUE]
    /\ UNCHANGED managerVars

\* disconnect()
ApiDisconnect ==
    /\ api.connected \/ api.protocol
    /\ LET d == ConnectionChanged(data, Connected(api), FALSE)
       IN  /\ JobsFit(data, d)
           /\ data' = d
    /\ api' = [api EXCEPT !.connected = FALSE, !.protocol = FALSE]
    /\ UNCHANGED managerVars

\* async_start: the callbacks are registered
AsyncStart ==
    /\ ~data.subscribed
    /\ api' = [api EXCEPT !.callbacks = ConfiguredZones]
    /\ data' = [data EXCEPT !.subscribed = TRUE]
    /\ UNCHANGED managerVars

\* register_listener(zone, callback_fn)
RegisterListener(zone, who) ==
    /\ \A i \in 1..Len(data.listeners[zone]) : data.listeners[zone][i] # who
    /\ data' = [data EXCEPT !.listeners[zone] = Append(@, who)]
    /\ UNCHANGED <<api, managerVars>>

\* list.remove(x): the first occurrence of x is taken out
RemoveFirst(s, x) ==
    LET i == Find(s, x)
    IN  IF i = 0 THEN s ELSE SubSeq(s, 1, i - 1) \o Drop(s, i)

\* unregister_listener(zone, callback_fn)
UnregisterListener(zone, who) ==
    /\ Find(data.listeners[zone], who) # 0
    /\ data' = [data EXCEPT !.listeners[zone] = RemoveFirst(@, who)]
    /\ UNCHANGED <<api, managerVars>>

\* the event loop runs the oldest job added by hass.add_job
RunJob ==
    /\ data.jobs # <<>>
    /\ data' = [data EXCEPT !.jobs = Tail(@),
                            !.fired = Notified(data, Head(data.jobs))]
    /\ UNCHANGED <<api, managerVars>>

\* the API and the facade as async_setup_entry builds them: the API is new,
\* or connect() has succeeded before the facade is built
InitApp ==
    /\ InitManager
    /\ ~portOk
    /\ feed = NoFeed
    /\ parse = NoParse
    /\ \E c \in BOOLEAN :
          /\ api = [NewApi EXCEPT !.connected = c, !.protocol = c]
          /\ data = [NewData EXCEPT !.available = c]
    /\ pipe = NoPipe
    /\ wire = NewWire

ApiSteps ==
    \/ ApiConnectSuccess
    \/ ApiConnectFail
    \/ ResponseReturned
    \/ ApiResponseTimeout
    \/ \E message \in Messages : HandleMessage(message)
    \/ ApiHandleDisconnect

\* the typed commands of the API, with no facade subscribed
NextApi ==
    \/ \E method \in Methods :
          \E a \in ArgInputs(method) : TypedCall(method, a.zone, a.p)
    \/ ApiSteps
    \/ ApiDisconnect

SpecApi == InitApp /\ [][NextApi]_vars

\* the facade on top of the API
NextData ==
    \/ AsyncStart
    \/ \E r \in Registrations : RegisterListener(r.zone, r.who)
    \/ \E r \in Registrations : UnregisterListener(r.zone, r.who)
    \/ \E zone \in ConfiguredZones : RefreshZone(zone)
    \/ RunJob
    \/ ApiSteps

SpecData == InitApp /\ [][NextData]_vars

\* set_bass, set_treble and set_balance on every zone and every level of
\* their ranges
NextLevel ==
    \/ \E method \in LevelMethods, zone \in MIN_ZONE..MAX_ZONE, level \in (0 - 10)..10 :
          TypedCall(method, zone, level)
    \/ ApiConnectSuccess
    \/ ApiResponseTimeout

SpecLevel == InitApp /\ [][NextLevel]_vars

\* ------------------------------------------------------------------------
\* BreatheAudioProtocol and BreatheAudioAPI under concurrent commands
\* ------------------------------------------------------------------------

\* data_received: a message that lost its "#" gets it back
RepairPrefix(message) ==
    IF StartsWith(message, <<RESPONSE_PREFIX>>) THEN message
    ELSE IF StartsWith(message, <<"Z">>) THEN <<RESPONSE_PREFIX>> \o message
    ELSE IF message[1] \in Digits THEN <<RESPONSE_PREFIX, "Z">> \o message
    ELSE message

\* data_received: the "while COMMAND_TERMINATOR in self._buffer" loop;
\* messages are the arguments of message_callback, in order
RECURSIVE SplitMessages(_, _)
SplitMessages(buf, messages) ==
    LET idx == Find(buf, COMMAND_TERMINATOR)
    IN  IF idx = 0 THEN [messages |-> messages, buffer |-> buf]
        ELSE LET stripped == Strip(SubSeq(buf, 1, idx - 1))
                 message == IF Contains(stripped, <<"#", "#">>)
                            THEN ReplaceDoubleHash(stripped)
                            ELSE stripped
                 passes == /\ message # <<>>
                           /\ \/ StartsWith(message, <<RESPONSE_PREFIX>>)
                              \/ Contains(message, <<"P", "W", "R">>)
             IN  SplitMessages(Drop(buf, idx),
                               IF passes
                               THEN Append(messages, RepairPrefix(message))
                               ELSE messages)

\* data_received(bytes) on a protocol whose buffer is buf
DataReceived(buf, bytes) == SplitMessages(buf \o DecodeAscii(bytes), <<>>)

\* _handle_message for each message in turn; no zone callback is registered
RECURSIVE HandleMessages(_, _)
HandleMessages(w, messages) ==
    IF messages = <<>> THEN w
    ELSE LET m == Head(messages)
             seen == [w EXCEPT !.delivered = Append(@, m)]
         IN  HandleMessages(
                 IF StartsWith(m, <<RESPONSE_PREFIX>>)
                 THEN [seen EXCEPT !.lastResponse = m, !.responseEvent = TRUE]
                 ELSE seen,
                 Tail(messages))

otherVars == <<mgrVars, loopVars, callVars, obsVars, ctlVars, portOk, feed, parse,
               api, data, pipe>>

\* BreatheAudioAPI.connected
WireConnected(w) == w.connected /\ w.transport # "none"

\* _send_command: "self._protocol._buffer = ''" before the write
BufferAtWrite(buf) == <<>>

\* the end of "async with self._lock"
WireRelease(w, c) == [w EXCEPT !.owner = NoCaller, !.pc[c] = "idle"]

\* _send_command inside the lock, up to the wait for the response
WireLocked(w, c) ==
    IF w.transport = "none" THEN WireRelease(w, c)
    ELSE [w EXCEPT !.owner = c,
                   !.buffer = BufferAtWrite(@),
                   !.responseEvent = FALSE,
                   !.lastResponse = NoResponse,
                   !.pc[c] = "resp"]

\* _send_command after the connection check: the _protocol check, then the
\* lock, taken at once when it is free and nobody is queued
WireEnter(w, c) ==
    IF w.transport = "none" THEN [w EXCEPT !.pc[c] = "idle"]
    ELSE IF w.owner = NoCaller /\ w.queue = <<>> THEN WireLocked(w, c)
    ELSE [w EXCEPT !.queue = Append(@, c), !.pc[c] = "lock"]

\* a task calls _send_command: connect() is awaited when not connected
WireCommand(c) ==
    /\ wire.pc[c] = "idle"
    /\ wire' = IF ~WireConnected(wire)
               THEN [wire EXCEPT !.pc[c] = "connecting"]
               ELSE WireEnter(wire, c)
    /\ UNCHANGED otherVars

\* connect(): create_serial_connection returns a new transport and a new
\* protocol, stored over the ones held; connect() then sleeps
WireOpened(c) ==
    /\ wire.pc[c] = "connecting"
    /\ wire' = [wire EXCEPT !.leaked = @ \/ wire.transport = "open",
                            !.transport = "open",
                            !.buffer = <<>>,
                            !.connected = TRUE,
                            !.pc[c] = "waking"]
    /\ UNCHANGED otherVars

\* connect(): create_serial_connection raises SerialException
WireOpenFailed(c) ==
    /\ wire.pc[c] = "connecting"
    /\ wire' = [wire EXCEPT !.pc[c] = "idle"]
    /\ UNCHANGED otherVars

\* connect() after its sleeps: the wake-up terminator is written and
\* _send_command goes on; with _protocol gone the write raises
WireAwake(c) ==
    /\ wire.pc[c] = "waking"
    /\ wire' = WireEnter(wire, c)
    /\ UNCHANGED otherVars

\* the released lock wakes the first queued command
WireLockAcquired(c) ==
    /\ wire.owner = NoCaller
    /\ wire.queue # <<>>
    /\ c = Head(wire.queue)
    /\ wire' = WireLocked([wire EXCEPT !.queue = Tail(@)], c)
    /\ UNCHANGED otherVars

\* the wait for _response_event ends: _last_response is returned
WireResponse(c) ==
    /\ wire.pc[c] = "resp"
    /\ wire.responseEvent
    /\ wire' = WireRelease(wire, c)
    /\ UNCHANGED otherVars

\* the wait for _response_event times out
WireTimeout(c) ==
    /\ wire.pc[c] = "resp"
    /\ ~wire.responseEvent
    /\ wire' = WireRelease(wire, c)
    /\ UNCHANGED otherVars

\* data_received on the protocol of the transport held: the next chunk
WireData ==
    /\ wire.transport = "open"
    /\ wire.fed < Len(WireChunks)
    /\ LET r == DataReceived(wire.buffer, WireChunks[wire.fed + 1])
       IN  wire' = HandleMessages([wire EXCEPT !.buffer = r.buffer, !.fed = @ + 1],
                                  r.messages)
    /\ UNCHANGED otherVars

\* the serial link fails: the transport closes and schedules connection_lost
WireFailure ==
    /\ wire.transport = "open"
    /\ wire' = [wire EXCEPT !.transport = "closed", !.lostPending = TRUE]
    /\ UNCHANGED otherVars

\* connection_lost -> _handle_disconnect
WireHandleDisconnect ==
    /\ wire.lostPending
    /\ wire' = [wire EXCEPT !.lostPending = FALSE,
                            !.connected = FALSE,
                            !.responseEvent = TRUE]
    /\ UNCHANGED otherVars

\* disconnect(): the transport held is closed and forgotten
WireDisconnect ==
    /\ wire' = [wire EXCEPT !.connected = FALSE,
                            !.lostPending = @ \/ wire.transport = "open",
                            !.transport = "none"]
    /\ UNCHANGED otherVars

\* a new API used by two tasks that send commands, while the device's
\* responses arrive and the link is lost or closed
InitWire ==
    /\ InitManager
    /\ ~portOk
    /\ feed = NoFeed
    /\ parse = NoParse
    /\ api = NewApi
    /\ data = NewData
    /\ pipe = NoPipe
    /\ wire = NewWire

NextWire ==
    \/ \E c \in Callers : WireCommand(c)
    \/ \E c \in Callers : WireOpened(c)
    \/ \E c \in Callers : WireOpenFailed(c)
    \/ \E c \in Callers : WireAwake(c)
    \/ \E c \in Callers : WireLockAcquired(c)
    \/ \E c \in Callers : WireResponse(c)
    \/ \E c \in Callers : WireTimeout(c)
    \/ WireData
    \/ WireFailure
    \/ WireHandleDisconnect
    \/ WireDisconnect

SpecWire == InitWire /\ [][NextWire]_vars

\* ------------------------------------------------------------------------
\* properties
\* ------------------------------------------------------------------------

InSection(c) == pc[c] \in {"avail", "availWoken", "resp"}
Payload(c) == args[c].command \o <<COMMAND_TERMINATOR>>
Completes(c) == pc[c] # "done" /\ pc'[c] = "done"

\* C1: two send_command calls never have their response waiters registered
\* at the same time: a waiter exists only while the call that holds the
\* command lock awaits its response, and a call writes its bytes only when
\* no other call is inside the locked section.
C1_WaiterOnlyUnderLock ==
    /\ \A c, d \in Callers : InSection(c) /\ InSection(d) => c = d
    /\ \A c \in Callers : InSection(c) => lockOwner = c
    /\ responseWaiter.st # "none" =>
           /\ lockOwner # NoCaller
           /\ pc[lockOwner] = "resp"
C1_WriteAfterFirstResolved ==
    \A c \in Callers :
        written'[c] # written[c] /\ written'[c] # <<>> =>
            \A d \in Callers \ {c} : ~InSection(d)
C1_Serialized ==
    []C1_WaiterOnlyUnderLock /\ [][C1_WriteAfterFirstResolved]_vars
\* a response-awaited call queues for the lock while another awaits its response
C1_Witness ==
    \E c, d \in Callers :
        /\ c # d
        /\ pc[c] = "resp"
        /\ pc[d] = "lock"
        /\ args[d].wait

\* C2: a response-awaited call has written its command, its waiter holds
\* the first state parsed after the write, and the call returns that state,
\* whatever its zone.
C2_WaiterHoldsFirst ==
    \A c \in Callers :
        pc[c] = "resp" =>
            /\ written[c] = Payload(c)
            /\ responseWaiter =
                   IF firstParsed[c] = NoState
                   THEN PendingWaiter
                   ELSE [st |-> "done", result |-> firstParsed[c]]
C2_ReturnsFirst ==
    \A c \in Callers :
        pc[c] = "resp" /\ Completes(c) /\ firstParsed[c] # NoState =>
            result'[c] = [kind |-> "state", state |-> firstParsed[c]]
C2_NextFrame == []C2_WaiterHoldsFirst /\ [][C2_ReturnsFirst]_vars
\* a query sent for zone 1 has returned a state of zone 2
C2_Witness ==
    \E c \in Callers :
        /\ pc[c] = "done"
        /\ args[c].zone = 1
        /\ result[c].kind = "state"
        /\ result[c].state.zone = 2

\* C3: a response-awaited call for which no frame was parsed completes with
\* the Timeout failure, writes nothing more, and leaves no waiter behind:
\* afterwards a waiter exists only for another call that awaits its own
\* response, so a later frame finds no waiter of the completed call.
C3_TimeoutStep ==
    \A c \in Callers :
        pc[c] = "resp" /\ Completes(c) /\ firstParsed[c] = NoState =>
            /\ result'[c] = [kind |-> "timeout", state |-> NoState]
            /\ responseWaiter' = NoWaiter
            /\ written'[c] = written[c]
C3_NoWaiterLeft ==
    \A c \in Callers :
        pc[c] = "done" /\ responseWaiter.st # "none" =>
            \E d \in Callers \ {c} : pc[d] = "resp" /\ lockOwner = d
C3_Timeout ==
    /\ []C3_NoWaiterLeft
    /\ [][C3_TimeoutStep]_vars
\* a call has timed out and a frame was parsed afterwards for another call
C3_Witness ==
    \E c, d \in Callers :
        /\ c # d
        /\ pc[c] = "done"
        /\ result[c].kind = "timeout"
        /\ pc[d] = "resp"
        /\ responseWaiter.st = "done"

\* C4 as claimed: a call whose wait for availability expires writes nothing
\* and reports NotConnected (None); a call for which availability arrived
\* within the window writes its command.
C4_DroppedOnExpiry ==
    \A c \in Callers :
        pc[c] = "avail" /\ Completes(c) =>
            /\ written'[c] = <<>>
            /\ result'[c] = [kind |-> "none", state |-> NoState]
C4_WrittenOnArrival ==
    \A c \in Callers :
        pc[c] = "availWoken" /\ pc'[c] # "availWoken" => written'[c] = Payload(c)
C4_Claim == [][C4_DroppedOnExpiry /\ C4_WrittenOnArrival]_vars

\* C4 amended: a call whose wait for availability expires writes nothing
\* and reports NotConnected (None); a call for which availability arrived
\* within the window writes its command if the link is still available when
\* the call resumes, and else drops it and reports NotConnected.
C4_WrittenIfStillAvailable ==
    \A c \in Callers :
        pc[c] = "availWoken" /\ pc'[c] # "availWoken" =>
            IF available
            THEN written'[c] = Payload(c)
            ELSE /\ written'[c] = <<>>
                 /\ pc'[c] = "done"
                 /\ result'[c] = [kind |-> "none", state |-> NoState]
C4_NotConnected == [][C4_DroppedOnExpiry /\ C4_WrittenIfStillAvailable]_vars
\* a call has dropped its command: nothing written, None returned
C4_Witness ==
    \E c \in Callers :
        /\ pc[c] = "done"
        /\ result[c] = [kind |-> "none", state |-> NoState]
        /\ written[c] = <<>>

\* C5 as claimed: a call that was suspended when stop() was invoked is no
\* longer suspended once stop() has returned.
C5_Claim ==
    \A c \in Callers : stoppedDuring[c] => ctlPc = "stopping"

\* C6 as claimed: a call that was awaiting its response when the session
\* failed is resolved by the time the supervisor has left Connected.
C6_Claim ==
    \A c \in Callers : lostDuring[c] => loopPc = "connected"

\* C7: on_connection_change is called on edges only: each call passes a
\* value different from the previous call's, the first call passes true,
\* and the call coincides with the change of the available flag to that
\* value.
C7_NotifyStep ==
    notifyTick' # notifyTick =>
        /\ lastNotified' # lastNotified
        /\ lastNotified = "none" => lastNotified' = "true"
        /\ available' # available
        /\ lastNotified' = BoolName(available')
C7_EdgesOnly == [][C7_NotifyStep]_vars
\* the observer was told false (after true), and availability is false again
\* after a second stop()
C7_Witness ==
    /\ lastNotified = "false"
    /\ stopEvent
    /\ ctlPc = "idle"
    /\ initialConnectEvent

\* C8: unless stop() is requested, every backoff sleep is followed by
\* another connection attempt, and if from some point on the port stays
\* openable and the loop is running without a stop request, availability
\* becomes true again and again.
C8_NeverGivesUp ==
    /\ (loopPc = "sleeping") ~> (loopPc = "connecting" \/ stopEvent)
    /\ <>[](portOk /\ connectionTask /\ ~stopEvent) => []<>available
\* the loop retries with the backoff at its cap
C8_Witness ==
    /\ loopPc = "connecting"
    /\ backoff = BackoffCap
    /\ ~stopEvent

\* the values the backoff takes: the floor doubled up to the cap
BackoffValues == {500, 1000, 2000, 4000, 8000, 16000, 30000}

C9_DelayBound ==
    loopPc = "sleeping" =>
        /\ jitter \in 0..(JitterBound - 1)
        /\ backoff \in BackoffValues
        /\ delay = Min(backoff + jitter, 30000)
        /\ delay <= 30000
C9_DelayStep ==
    /\ loopPc # "sleeping" /\ loopPc' = "sleeping" => delay' >= delay
    /\ loopPc = "sleeping" /\ loopPc' = "connecting" =>
           backoff' = Min(2 * backoff, 30000)
C10_ReturnStep ==
    ctlPc = "starting" /\ ctlPc' = "idle" =>
        /\ initialAttemptDone \/ ~initialConnectEvent
        /\ startResult' = available
C10_Claim == [][C10_ReturnStep]_vars

\* stop() has returned and start() has not been called since
Stopped == ctlPc = "idle" /\ ~connectionTask /\ stopEvent

C11_Quiet ==
    Stopped => ~available /\ ~protocol /\ ~transportOpen /\ loopPc = "none"

C11_NoActivity ==
    /\ Stopped /\ Stopped' =>
          UNCHANGED <<loopPc, available, protocol, transportOpen, lastNotified, notifyTick>>
    /\ Stopped /\ ~Stopped' => ctlPc' = "starting" /\ loopPc' = "created"

\* C11: after stop() returns, availability is false, no session is open and
\* the connection loop has exited, and until start() is called again the
\* loop makes no connection attempt and on_connection_change is not called,
\* wherever the loop was when stop() was called.
C11_AfterStop == []C11_Quiet /\ [][C11_NoActivity]_vars

C11_Witness == Stopped /\ portOk /\ lastNotified = "false" /\ initialConnectEvent

C12_NoWaiter ==
    /\ \A c \in Callers : pc[c] = "resp" => args[c].wait
    /\ responseWaiter.st # "none" =>
          \E c \in Callers : pc[c] = "resp" /\ lockOwner = c /\ args[c].wait

C12_Result ==
    \A c \in Callers :
        pc[c] = "done" /\ ~args[c].wait =>
            /\ result[c].kind = "none"
            /\ written[c] \in {<<>>, Payload(c)}

C12_WriteStep ==
    \A c \in Callers :
        ~args'[c].wait /\ written'[c] # <<>> /\ (written'[c] # written[c] \/ pc[c] # "done") =>
            /\ pc'[c] = "done"
            /\ written'[c] = args'[c].command \o <<COMMAND_TERMINATOR>>
            /\ responseWaiter' = responseWaiter

\* C12: a send_command call with wait_for_response false returns in the step
\* that makes its single write, with no result, and registers no response
\* waiter: a waiter exists only for a call that awaits its response, so a
\* frame that arrives afterwards resolves nothing of the finished call.
C12_FireAndForget == []C12_NoWaiter /\ []C12_Result /\ [][C12_WriteStep]_vars

C12_Witness ==
    \E c \in Callers :
        /\ pc[c] = "done" /\ ~args[c].wait /\ written[c] = Payload(c)
        /\ responseWaiter.st = "none" /\ protocol /\ transportOpen

\* the bytes fed so far, the last chunk, and the bytes fed before it
FedBytes == SubSeq(feed.input, 1, feed.fed)
LastChunk == SubSeq(feed.input, feed.fed - feed.lastLen + 1, feed.fed)
FedBefore == SubSeq(feed.input, 1, feed.fed - feed.lastLen)
HasTerminator(s) == \E i \in 1..Len(s) : s[i] = COMMAND_TERMINATOR

\* C13: the frames returned over all the feed_data calls, in call order, are
\* the frames one call returns for the same bytes; the last call returned
\* exactly the frames its chunk completed, none when the chunk holds no
\* terminator.
C13_ChunkingInvisible ==
    /\ feed.frames = FeedData(<<>>, FedBytes).frames
    /\ feed.frames = FeedData(<<>>, FedBefore).frames \o feed.last
    /\ ~HasTerminator(LastChunk) => feed.last = <<>>

C13_Witness ==
    /\ feed.input = FrameZ01On \o FrameZ02Off
    /\ feed.fed = Len(feed.input)
    /\ feed.calls = 2
    /\ feed.lastLen = 3
    /\ feed.last = <<SubSeq(FrameZ02Off, 1, Len(FrameZ02Off) - 1)>>
    /\ Len(feed.frames) = 2

RECURSIVE Concat(_)
Concat(seqs) == IF seqs = <<>> THEN <<>> ELSE Head(seqs) \o Concat(Tail(seqs))

RECURSIVE RemoveTerminators(_)
RemoveTerminators(s) ==
    IF s = <<>> THEN <<>>
    ELSE IF Head(s) = COMMAND_TERMINATOR THEN RemoveTerminators(Tail(s))
         ELSE <<Head(s)>> \o RemoveTerminators(Tail(s))

C14_Accumulates ==
    ~HasTerminator(FedBytes) => buffer = FedBytes /\ feed.frames = <<>>

\* C14 as stated: the extents of the frames produced so far, followed by the
\* buffer, are the input without its terminators.
C14_Claim ==
    /\ Concat(feed.kept) \o buffer = RemoveTerminators(FedBytes)
    /\ C14_Accumulates

\* C14, amended: the extents of all the terminated segments cut so far (those
\* returned as frames and those discarded because they trim to nothing),
\* followed by the buffer, are the input without its terminators; the
\* frames returned are the trimmed text of the segments that do not trim to
\* nothing; with no terminator the bytes accumulate and no frame is produced.
C14_NoLossNoDuplicate ==
    /\ Concat(feed.segments) \o buffer = RemoveTerminators(FedBytes)
    /\ Len(feed.frames) = Len(feed.kept)
    /\ \A i \in 1..Len(feed.frames) : feed.frames[i] = Strip(DecodeAscii(feed.kept[i]))
    /\ feed.kept = KeptExtents(feed.segments)
    /\ C14_Accumulates

C14_Witness ==
    /\ feed.calls >= 2
    /\ Len(feed.segments) = 2
    /\ Len(feed.kept) = 1
    /\ buffer # <<>>

\* what the tokens of a frame say about key k
HasKey(frame, k) == \E i \in 1..Len(frame.tokens) : frame.tokens[i].key = k
LastOf(frame, k) ==
    frame.tokens[CHOOSE i \in 1..Len(frame.tokens) :
                    /\ frame.tokens[i].key = k
                    /\ \A j \in (i + 1)..Len(frame.tokens) : frame.tokens[j].key # k]

\* C15: for a frame made of the response prefix, 'Z' + 1-2 digits and
\* comma-separated tokens, parse_state returns that zone, power / volume /
\* mute as the PWR / VOL<integer> / MUT tokens give them, and no power,
\* volume or mute key whose token is absent; "#Z03PWRON,VOL10,MUTON" gives
\* exactly zone 3, power true, volume 10, mute true.
C15_ZoneAndState ==
    LET f == parse.frame
        st == parse.state
    IN  parse.done /\ f.prefix # <<>> /\ f.zone.form = "Z" =>
            /\ "zone" \in st.keys /\ st.zone = f.zone.num
            /\ ("power" \in st.keys) = HasKey(f, "power")
            /\ HasKey(f, "power") => st.power = (LastOf(f, "power").num = 1)
            /\ ("volume" \in st.keys) = HasKey(f, "volume")
            /\ HasKey(f, "volume") => st.volume = LastOf(f, "volume").num
            /\ ("mute" \in st.keys) = HasKey(f, "mute")
            /\ HasKey(f, "mute") => st.mute = (LastOf(f, "mute").num = 1)
            /\ f = FrameZone3 =>
                  st = SetMute(SetVolume(SetPower(SetZone(EmptyState, 3), TRUE), 10), TRUE)

C15_Witness ==
    /\ parse.done
    /\ parse.frame = FrameZone3
    /\ parse.state.keys = {"zone", "power", "volume", "mute"}

\* C16: a frame with no zone number and a power token is attributed to
\* last_zone when one is given; a zone in the frame wins over last_zone;
\* with no zone in the frame and no last_zone the result has no zone.
C16_LastZone ==
    LET f == parse.frame
        st == parse.state
    IN  parse.done =>
            /\ f.zone.form = "none" /\ HasKey(f, "power") /\ parse.last_zone # NoZone =>
                  "zone" \in st.keys /\ st.zone = parse.last_zone
            /\ f.zone.form # "none" =>
                  "zone" \in st.keys /\ st.zone = f.zone.num
            /\ f.zone.form = "none" /\ parse.last_zone = NoZone => "zone" \notin st.keys

C16_Witness ==
    /\ parse.done
    /\ parse.frame = [prefix |-> <<>>, zone |-> ZoneAbsent, tokens |-> <<TokPwrOn>>]
    /\ parse.last_zone = 5
    /\ parse.state = SetPower(SetZone(EmptyState, 5), TRUE)

\* C17: in a composite frame SRC<digits> gives source, GRP<digits> gives
\* group and a signed VOL gives the magnitude:
\* "#Z01PWRON,SRC3,GRP0,VOL-45,PMST" contains zone 1, power true, source 3,
\* group 0 and volume 45.
C17_Claim ==
    LET f == parse.frame
        st == parse.state
    IN  /\ parse.done /\ f.zone.form = "Z" /\ HasKey(f, "source") =>
              "source" \in st.keys /\ st.source = LastOf(f, "source").num
        /\ parse.done /\ f.zone.form = "Z" /\ HasKey(f, "group") => "group" \in st.keys
        /\ parse.done /\ f = FrameComposite =>
              /\ {"zone", "power", "source", "group", "volume"} \subseteq st.keys
              /\ st.zone = 1 /\ st.power /\ st.source = 3 /\ st.volume = 45

\* C18: a token P + 2-3 character code (POFF, PSLV, PMST) sets party_mode,
\* and is not taken for a PWR token.
C18_Claim ==
    LET f == parse.frame
        st == parse.state
    IN  parse.done /\ HasKey(f, "party_mode") =>
            /\ "party_mode" \in st.keys
            /\ ("power" \in st.keys) = HasKey(f, "power")

\* C19: VOLMT sets mute = true, VOLXM sets external_mute = true, and neither
\* sets a volume.
C19_Claim ==
    LET f == parse.frame
        st == parse.state
    IN  parse.done =>
            /\ HasKey(f, "volmt") => "mute" \in st.keys /\ st.mute
            /\ HasKey(f, "volxm") => "external_mute" \in st.keys
            /\ ~HasKey(f, "volume") => "volume" \notin st.keys

\* C20: a frame whose body is exactly ALLOFF, EXTMON or EXTMOFF, with no
\* zone, is returned as a broadcast event that carries no zone, whatever
\* last_zone is.
C20_Claim ==
    LET f == parse.frame
        st == parse.state
    IN  /\ parse.done
        /\ f.zone.form = "none"
        /\ Len(f.tokens) = 1
        /\ f.tokens[1].key = "broadcast"
        => st.keys = {"broadcast"}

\* C21: parse_state returns none whenever the remainder of the frame is the
\* bare error marker "?", with or without a last_zone and also when a zone
\* number precedes the marker.
C21_Claim ==
    parse.done /\ parse.frame.tokens = <<TokError>> => parse.state = NoState

\* C22: every incoming zone state, a push update or the result of a
\* refresh, is merged field by field into the stored state of the zone:
\* whenever the stored state of a zone changes, the new state is the old one
\* updated with an incoming state, so no key is lost.
C22_MergeStep ==
    \A z \in ConfiguredZones :
        LET old == data.zoneData[z]
            new == data'.zoneData[z]
        IN  new # old =>
              /\ old.keys \subseteq new.keys
              /\ \E m \in Messages : new = Updated(old, ParseResponse(m))

C22_Claim == [][C22_MergeStep]_vars

\* C23: the job a zone update for z adds and the direct call of a refresh
\* notify the observers registered for z, all of them and no observer
\* registered for another zone only; an availability flip adds one job for
\* each configured zone 1..N.
C23_FanOutStep ==
    /\ data.jobs # <<>> /\ data'.jobs = Tail(data.jobs) =>
          data'.fired = [zone |-> Head(data.jobs),
                         who |-> data.listeners[Head(data.jobs)]]
    /\ data'.fired # data.fired =>
          /\ data'.fired.who = data.listeners[data'.fired.zone]
          /\ \A r \in Registrations :
                r.zone # data'.fired.zone =>
                   \A i \in 1..Len(data'.fired.who) : data'.fired.who[i] # r.who
    /\ \A z \in ConfiguredZones :
          data'.zoneData[z] # data.zoneData[z] =>
             \/ data'.jobs = Append(data.jobs, z)
             \/ data'.fired = [zone |-> z, who |-> data.listeners[z]] /\ api.call.zone = z
    /\ api'.lastResponse # NoResponse /\ api'.lastResponse # api.lastResponse =>
          LET u == ParseResponse(api'.lastResponse)
          IN  u.zone \in api.callbacks => data'.jobs = Append(data.jobs, u.zone)
    /\ data'.available # data.available =>
          /\ Len(data'.jobs) = Len(data.jobs) + Cardinality(ConfiguredZones)
          /\ SubSeq(data'.jobs, 1, Len(data.jobs)) = data.jobs
          /\ {data'.jobs[i] : i \in (Len(data.jobs) + 1)..Len(data'.jobs)} = ConfiguredZones

C23_FanOut == [][C23_FanOutStep]_vars

C23_Witness ==
    /\ data.fired = [zone |-> 1, who |-> <<"o1">>]
    /\ data.listeners[2] = <<"o2">>
    /\ ~data.available
    /\ data.jobs = <<1, 2>>
    /\ "power" \in data.zoneData[1].keys

\* the ranges of the typed commands: zone 1..12, volume 0..100, source 1..6,
\* tone and balance -10..10
OutOfRange(method, zone, p) ==
    \/ zone < 1 \/ zone > 12
    \/ method = "set_volume" /\ (p < 0 \/ p > 100)
    \/ method = "set_source" /\ (p < 1 \/ p > 6)
    \/ method \in {"set_bass", "set_treble", "set_balance"} /\ (p < 0 - 10 \/ p > 10)

\* C24: a typed command called with a zone or a parameter out of range
\* returns False (None for the status query) and changes nothing else: no
\* byte is written, no connection is attempted, the response event and the
\* last response are as they were; no command with such arguments is ever
\* in progress.
C24_RejectStep ==
    /\ api'.attempt # api.attempt =>
          /\ OutOfRange(api'.attempt.method, api'.attempt.zone, api'.attempt.param)
          /\ api'.attempt.ret \in {"False", "None"}
          /\ [api' EXCEPT !.attempt = api.attempt] = api
          /\ data' = data
    /\ api'.pc # "idle" =>
          ~OutOfRange(api'.call.method, api'.call.zone, api'.call.param)

C24_SilentlyDropped == [][C24_RejectStep]_vars

C24_Witness ==
    /\ api.attempt = [method |-> "set_volume", zone |-> 12, param |-> 101, ret |-> "False"]
    /\ api.pc = "resp"
    /\ ~api.responseEvent
    /\ api.written = <<<<"*", "Z", "1", "2", "v", "o", "l", "1", "0", "0", "\r">>>>

\* C25: losing the connection, reconnecting and availability flips leave
\* the stored zone states as they are, and a field of a zone changes only
\* to a value parsed from a message for that field of that zone.
C25_PersistStep ==
    /\ (data'.available # data.available \/ api'.connected # api.connected) =>
          data'.zoneData = data.zoneData
    /\ \A z \in ConfiguredZones : \A k \in StateKeys :
          LET old == data.zoneData[z]
              new == data'.zoneData[z]
          IN  ((k \in old.keys) # (k \in new.keys) \/ old[k] # new[k]) =>
                 \E m \in Messages :
                    LET u == ParseResponse(m)
                    IN  /\ u.zone = z
                        /\ k \in u.keys /\ k \in new.keys
                        /\ new[k] = u[k]

C25_Claim == [][C25_PersistStep]_vars

\* C26: every command that is sent results in exactly one write, whose bytes
\* are the command prefix, the body and a single terminating CR: a step
\* changes the bytes a call has written only by starting a new call or by
\* writing the whole framed command of the call once.
C26_WriteStep ==
    \A c \in Callers :
        written'[c] # written[c] =>
            \/ written'[c] = <<>>
            \/ /\ written'[c] = args'[c].command \o <<CR>>
               /\ written'[c][1] = "*"
               /\ \A i \in 1..Len(args'[c].command) : args'[c].command[i] # CR
               /\ pc[c] \in {"idle", "done", "lock", "availWoken"}

C26_FramedOnce == [][C26_WriteStep]_vars

C26_Witness ==
    \E c \in Callers :
        /\ pc[c] = "resp"
        /\ written[c] = <<"*", "Z", "0", "1", "C", "O", "N", "S", "R", "\r">>

\* the step in which call c passes its bytes to the transport
Writes(c) ==
    /\ written'[c] # <<>>
    /\ \/ pc[c] \in {"lock", "avail", "availWoken"} /\ written[c] = <<>>
       \/ pc[c] \in {"idle", "done"} /\ pc'[c] = "resp"
       \/ /\ pc[c] \in {"idle", "done"}
          /\ pc'[c] = "done"
          /\ ~args'[c].wait
          /\ lastCommandedZone' = args'[c].zone
          /\ \A d \in Callers \ {c} :
                /\ pc'[d] = pc[d]
                /\ written'[d] = written[d]
                /\ args'[d] = args[d]
                /\ firstParsed'[d] = firstParsed[d]
          /\ UNCHANGED <<pipe, wire, feed, parse, api, data, buffer, protocol,
                         transportOpen, lostPending, stopEvent, disconnectEvent,
                         availableEvent, initialConnectEvent, connectionTask,
                         available, responseWaiter, loopVars, lockQueue,
                         lastNotified, notifyTick, ctlVars, portOk>>

C27_WriteStep ==
    \A c \in Callers : Writes(c) => lastCommandedZone' = args'[c].zone

\* C27: at the moment the bytes of a command for zone z are written,
\* LastCommandedZone equals z, also when other calls for other zones are
\* queued or dropped.
C27_Claim == [][C27_WriteStep]_vars

\* C28: a send_command call blocked waiting for availability or for its
\* response never disables a step of the connection loop: the disconnect
\* callback, the reaction to the disconnect (availability false), the end
\* of the backoff sleep and the outcome of a connection attempt can each
\* happen whatever the calls are doing.
C28_LoopNeverBlocked ==
    /\ lostPending => ENABLED HandleDisconnect
    /\ loopPc = "connected" /\ ~cancelReq /\ (disconnectEvent \/ stopEvent) =>
          ENABLED LoopDisconnected
    /\ loopPc = "sleeping" /\ ~cancelReq => ENABLED LoopWake
    /\ loopPc = "connecting" /\ ~cancelReq => ENABLED (ConnectSuccess \/ ConnectFail)
    /\ cancelReq /\ loopPc # "done" => ENABLED LoopCancelled

C28_Witness ==
    /\ \E c \in Callers : pc[c] = "resp" /\ responseWaiter.st = "pending" /\ lostDuring[c]
    /\ \E c \in Callers : pc[c] = "lock"
    /\ loopPc = "sleeping"
    /\ lastNotified = "false"

\* C29 as stated: a call suspends only to wait for availability or for its
\* response.
C29_Claim ==
    \A c \in Callers : pc[c] \in {"idle", "done", "avail", "availWoken", "resp"}

\* C29, amended: every send_command call eventually returns, whatever the
\* connection does and with other calls queued; it suspends to wait for the
\* command lock, for availability or for its response.
C29_Returns ==
    \A c \in Callers :
        (pc[c] \in {"lock", "avail", "availWoken", "resp"}) ~> (pc[c] = "done")

C29_Witness ==
    \E c, d \in Callers :
        /\ pc[c] = "done" /\ result[c].kind = "timeout"
        /\ pc[d] = "avail"
        /\ ~available

\* C30: a successful connection attempt resets the backoff to its floor and
\* raises availability true, once; the first retry delay after the session
\* is lost is the floor plus the jitter drawn, whatever failures preceded.
C30_SuccessStep ==
    /\ loopPc = "connecting" /\ loopPc' = "connected" =>
          /\ backoff' = BackoffFloor
          /\ ~available /\ available'
          /\ lastNotified' = "true" /\ notifyTick' # notifyTick
    /\ loopPc = "connected" /\ loopPc' = "connected" =>
          UNCHANGED <<available, lastNotified, notifyTick, backoff>>
    /\ loopPc = "connected" /\ loopPc' = "sleeping" =>
          /\ delay' = BackoffFloor + jitter'
          /\ jitter' >= 0 /\ jitter' < JitterBound

C30_ResetOnSuccess == [][C30_SuccessStep]_vars

C30_Witness ==
    /\ loopPc = "sleeping"
    /\ lastNotified = "false"
    /\ backoff = BackoffFloor
    /\ delay = BackoffFloor + jitter
    /\ ~portOk

\* C35: once connected, the supervisor leaves Connected only when that
\* session itself has been lost or stop() has been requested; a disconnect
\* notification of a session closed earlier does not end it.
C35_LeaveStep ==
    loopPc = "connected" /\ loopPc' # "connected" =>
        \/ ~transportOpen
        \/ stopEvent
        \/ cancelReq

C35_Claim == [][C35_LeaveStep]_vars

\* the session of the protocol has been lost and connection_lost has
\* reported it
C38_LossReported == protocol /\ ~transportOpen /\ ~lostPending

\* C38: no call writes its command, or registers a response waiter, on a
\* session whose loss connection_lost has already reported.
C38_WriteStep ==
    \A c \in Callers : Writes(c) => ~C38_LossReported

C38_Claim == [][C38_WriteStep]_vars

\* C39: whenever the link is available the protocol is set, at every point
\* of the loop and of stop(), so a command that finds the link available
\* goes on to write.
C39_AvailableHasSession == available => protocol

\* stop() has closed the protocol of a connected manager and awaits the loop
C39_Witness ==
    /\ available
    /\ protocol
    /\ stopEvent
    /\ ctlPc = "stopping"
    /\ loopPc = "connected"

\* the frames the step's chunk completes, in arrival order
C31_Frames ==
    FeedData(buffer, SubSeq(pipe.input, pipe.fed + 1, pipe'.fed)).frames

C31_Parses(frame) == ParseState(frame, lastCommandedZone) # NoState

\* C31: a frame the parser turns into no state is dropped in silence: a
\* chunk whose frames all fail to parse calls no observer, leaves the
\* waiter, the calls and their results as they were, and a frame that follows
\* a failed one in the same chunk is still observed and resolves a pending
\* waiter.
C31_DropStep ==
    pipe'.fed # pipe.fed /\ (\E i \in 1..Len(C31_Frames) : ~C31_Parses(C31_Frames[i])) =>
        LET good == SelectSeq(C31_Frames, C31_Parses)
        IN  /\ Observed(pipe'.events) =
                 [i \in 1..Len(good) |-> ParseState(good[i], lastCommandedZone)]
            /\ responseWaiter' =
                 IF responseWaiter.st = "pending" /\ good # <<>>
                 THEN [st |-> "done",
                       result |-> ParseState(good[1], lastCommandedZone)]
                 ELSE responseWaiter
            /\ good = <<>> => pipe'.events = <<>>
            /\ UNCHANGED <<pc, result, written, available, protocol>>

C31_SilentlyDropped == [][C31_DropStep]_vars

\* an error marker and the frame after it came in one chunk while a call
\* awaited its response: the call's waiter holds the state of the second
C31_Witness ==
    /\ pipe.input = FrameError \o FrameZ01On \o FrameZ02Off
    /\ pipe.fed = Len(FrameError \o FrameZ01On)
    /\ Len(pipe.events) = 2
    /\ pipe.events[2].call = "set_result"
    /\ pc["c1"] = "resp"
    /\ responseWaiter.st = "done"

\* C36: a response-awaited call registers an unresolved waiter in the step
\* that writes its command; a waiter is resolved only while the call that
\* wrote is awaiting its response, and that step leaves every call that has
\* not written yet where it is, with no result.
C36_FreshAtWrite ==
    \A c \in Callers :
        Writes(c) /\ args'[c].wait => responseWaiter' = PendingWaiter
C36_ResolveStep ==
    responseWaiter'.st = "done" /\ responseWaiter.st # "done" =>
        /\ \E d \in Callers : pc[d] = "resp" /\ lockOwner = d /\ written[d] # <<>>
        /\ \A c \in Callers :
              pc[c] \in {"lock", "avail", "availWoken"} =>
                  /\ pc'[c] = pc[c]
                  /\ result'[c] = result[c]
                  /\ firstParsed'[c] = NoState
C36_ReturnStep ==
    \A c \in Callers :
        pc[c] # "done" /\ pc'[c] = "done" /\ result'[c].kind = "state" =>
            /\ pc[c] = "resp"
            /\ responseWaiter = [st |-> "done", result |-> result'[c].state]
C36_OnlyAfterWrite ==
    [][C36_FreshAtWrite /\ C36_ResolveStep /\ C36_ReturnStep]_vars

\* a frame was parsed for the call that holds the lock while a
\* response-awaited call was still queued for the lock
C36_Witness ==
    \E c, d \in Callers :
        /\ pc[c] = "lock"
        /\ args[c].wait
        /\ pc[d] = "resp"
        /\ responseWaiter.st = "done"
        /\ result[c] = NoResult

\* the calls of one _handle_data come in pairs: each state goes to on_state
\* and, if the waiter was pending, to set_result right after that call
C37_Ordered(events, pending) ==
    /\ \A i \in 1..Len(events) :
          events[i].call = "set_result" =>
              /\ pending
              /\ i = 2
              /\ events[1] = [call |-> "on_state", state |-> events[i].state]
    /\ pending /\ events # <<>> =>
          /\ Len(events) >= 2
          /\ events[2].call = "set_result"

\* C37: the states passed to the observer are, in order and once each, the
\* states of the frames completed by the bytes received so far, however
\* these were cut into chunks.
C37_ObservedOnce ==
    pipe.observed =
        ParsedStates(FeedData(<<>>, SubSeq(pipe.input, 1, pipe.fed)).frames, NoZone)

\* C37: within one chunk the observer is called before the waiter is
\* resolved with the same state; only the first state resolves a pending
\* waiter and a resolved waiter keeps its result.
C37_ResolveStep ==
    pipe'.fed # pipe.fed =>
        /\ C37_Ordered(pipe'.events, responseWaiter.st = "pending")
        /\ responseWaiter.st = "done" => responseWaiter' = responseWaiter
        /\ responseWaiter' =
             IF responseWaiter.st = "pending" /\ pipe'.events # <<>>
             THEN [st |-> "done", result |-> pipe'.events[1].state]
             ELSE responseWaiter

C37_Claim == []C37_ObservedOnce /\ [][C37_ResolveStep]_vars

\* two frames came in one chunk while a call awaited its response: both
\* were observed and the first resolved the waiter
C37_Witness ==
    /\ Len(pipe.events) = 3
    /\ pipe.events[2].call = "set_result"
    /\ pipe.events[3].call = "on_state"
    /\ Len(pipe.observed) = 2
    /\ responseWaiter = [st |-> "done", result |-> pipe.events[1].state]

\* the step starts a new session: a protocol with a buffer of its own
C33_NewSession ==
    \E c \in Callers : wire.pc[c] = "connecting" /\ wire'.pc[c] = "waking"

\* C33: within a session the receive buffer changes only when data is
\* received; sending a command, a timeout and a loss of the link leave the
\* bytes of a partial frame in place.
C33_BufferStep ==
    wire'.buffer # wire.buffer => wire'.fed # wire.fed \/ C33_NewSession

C33_Claim == [][C33_BufferStep]_vars

\* the connections that are open or being opened
C40_Connections ==
    Cardinality({c \in Callers : wire.pc[c] = "connecting"})
        + (IF wire.transport = "open" THEN 1 ELSE 0)
        + (IF wire.leaked THEN 1 ELSE 0)

\* C40: at most one serial connection is open or being opened at any time,
\* and no open transport is replaced without having been closed.
C40_Claim == C40_Connections <= 1

\* n in 0..99 as two digits
C34_TwoDigits(n) == <<DigitSeq[(n \div 10) + 1], DigitSeq[(n % 10) + 1]>>

C34_Body(method, zone, level) ==
    <<"Z">> \o C34_TwoDigits(zone)
        \o (IF method = "set_bass" THEN <<"b", "a", "s">>
            ELSE IF method = "set_treble" THEN <<"t", "r", "e">>
            ELSE <<"b", "a", "l">>)
        \o (IF level >= 0 THEN <<"+">> ELSE <<"-">>)
        \o C34_TwoDigits(IF level >= 0 THEN level ELSE 0 - level)

\* C34: the command sent by set_bass / set_treble / set_balance for a zone
\* in 1..12 and a level in -10..10 is Z, the zone as two digits, bas / tre /
\* bal, an explicit sign and exactly two digits.
C34_Claim ==
    api.pc = "resp" /\ api.call.method \in LevelMethods =>
        /\ api.call.cmd = C34_Body(api.call.method, api.call.zone, api.call.param)
        /\ api.written[Len(api.written)] =
             <<"*">> \o C34_Body(api.call.method, api.call.zone, api.call.param)
                 \o <<"\r">>

\* the frame without its bad tokens
C32_Cleaned(frame) ==
    [frame EXCEPT !.tokens = SelectSeq(@, LAMBDA t : t \in GoodTokens)]

\* C32: a token with a field name and a payload that is no number, or a
\* token the parser does not know, sets no key, and the state is the one the
\* frame gives without these tokens, wherever they stand among the others.
C32_Claim ==
    LET f == parse.frame
        st == parse.state
    IN  parse.done =>
            /\ st = ParseState(Render(C32_Cleaned(f)), parse.last_zone)
            /\ \A i \in 1..Len(f.tokens) :
                  /\ f.tokens[i] \in BadTokens
                  /\ ~HasKey(C32_Cleaned(f), f.tokens[i].key)
                  => f.tokens[i].key \notin st.keys
            /\ \A k \in {"power", "volume", "mute", "source", "bass", "treble"} :
                  HasKey(C32_Cleaned(f), k) => k \in st.keys

\* a bad source token stood between a power token and a volume token
C32_Witness ==
    /\ parse.done
    /\ parse.frame.tokens = <<TokPwrOn, TokSrcX, TokVol10>>
    /\ parse.frame.zone = ZoneZ03
    /\ parse.state = SetVolume(SetPower(SetZone(EmptyState, 3), TRUE), 10)

====
